---- MODULE Spec2Model ----
(***************************************************************************)
(* Live conversation gateway (src/live_gateway/app.py, live_api.py).       *)
(*                                                                         *)
(* One WebSocket connection: the receive loop of websocket_endpoint, the   *)
(* asyncio tasks it creates (_stream, the audio sender of                  *)
(* stream_transcription, _greeting, _trigger_agent_response, the synthesis *)
(* tasks), and the closure variables they share.  asyncio is cooperative:  *)
(* one action is the code a coroutine runs between two suspension points.  *)
(* The signed token codec and the OIDC callback are modelled as separate   *)
(* specifications over their own variables.                                *)
(***************************************************************************)
EXTENDS Integers, Sequences, FiniteSets, TLC

(* ---- bounds of the model ---------------------------------------------- *)
MaxMsgs == 3        \* frames received on the connection
MaxTasks == 4       \* asyncio tasks of the connection alive at one time
MaxChunks == 2      \* audio chunks accepted on the connection
MaxFrags == 1       \* transcript fragments per live session
MaxClock == 6       \* last reading of the monotonic clock, seconds
ProtoMsgs == 2      \* frames received when every shape of frame is explored
TicksPerSec == 4    \* readings of time.time() told apart within one second
MaxWall == 12       \* ticks the wall clock advances one by one
MaxTtl == 2         \* largest ttl_sec handed to _sign_value by the round trip
AuthWall == 4       \* ticks the wall clock advances one by one during a login
UpgradeMsgs == 1    \* frames received on the connection of a client that upgrades
ForgeWall == 5      \* ticks of wall clock while values of every kind are verified
TurnMsgs == 2       \* frames received on a connection whose turns are followed
TurnTasks == 5      \* asyncio tasks alive at one time while turns are followed
ListenMsgs == 1     \* frames received on a connection that only listens
TurnFrags == 2      \* transcript fragments of a session whose turns are followed
MaxEvents == 3      \* events of the upstream stream of one agent query

(* ---- program constants ------------------------------------------------ *)
DEBOUNCE_SEC == 2           \* now - last_response_at > 2.0
DEFAULT_SAMPLE_RATE == 16000
InitClock == 3              \* time.monotonic() when the connection opens
OIDC_SESSION_TTL_SEC == 8 * 60 * 60
OIDC_STATE_TTL_SEC == 10 * 60

(* ---- Python values of a decoded JSON field ---------------------------- *)
V(tag, s, n) == [tag |-> tag, s |-> s, n |-> n]
Missing == V("missing", <<>>, 0)              \* key absent
NullV == V("null", <<>>, 0)                   \* JSON null
StrV(s) == V("str", s, 0)                     \* str, one character per element
IntV(n) == V("int", <<>>, n)                  \* int
FloatV(tenths) == V("float", <<>>, tenths)    \* finite float, in tenths
InfV == V("inf", <<>>, 0)                     \* float('inf'), JSON 1e999
NanV == V("nan", <<>>, 0)                     \* float('nan'), JSON NaN

Whitespace == {" ", "\t"}
Digits == {"0", "1", "2", "3", "4", "5", "6", "7", "8", "9"}
B64Alphabet == {"Q", "U", "J", "D", "A"} \cup Digits \cup {"+", "/"}

\* payload.get(key, default) on a decoded frame
Get(field, default) == IF field.tag = "missing" THEN default ELSE field

RECURSIVE LStrip(_)
LStrip(s) == IF s # <<>> /\ Head(s) \in Whitespace THEN LStrip(Tail(s)) ELSE s

RECURSIVE RStrip(_)
RStrip(s) ==
    IF s # <<>> /\ s[Len(s)] \in Whitespace THEN RStrip(SubSeq(s, 1, Len(s) - 1)) ELSE s

\* str.strip()
Strip(s) == RStrip(LStrip(s))

DigitVal(c) ==
    CASE c = "0" -> 0 [] c = "1" -> 1 [] c = "2" -> 2 [] c = "3" -> 3 [] c = "4" -> 4
      [] c = "5" -> 5 [] c = "6" -> 6 [] c = "7" -> 7 [] c = "8" -> 8 [] c = "9" -> 9

RECURSIVE DigitsVal(_, _)
DigitsVal(s, acc) == IF s = <<>> THEN acc ELSE DigitsVal(Tail(s), 10 * acc + DigitVal(Head(s)))

Max(S) == CHOOSE x \in S : \A y \in S : y <= x
Min(S) == CHOOSE x \in S : \A y \in S : x <= y

Ok(n) == [ok |-> TRUE, n |-> n, exc |-> "none"]
Raise(exc) == [ok |-> FALSE, n |-> 0, exc |-> exc]

\* int("...") on a str: optional surrounding whitespace, optional sign, digits
PyIntStr(s) ==
    LET t == Strip(s)
        neg == t # <<>> /\ Head(t) = "-"
        d == IF t # <<>> /\ Head(t) \in {"-", "+"} THEN Tail(t) ELSE t
    IN  IF d # <<>> /\ \A i \in 1..Len(d) : d[i] \in Digits
        THEN Ok(IF neg THEN 0 - DigitsVal(d, 0) ELSE DigitsVal(d, 0))
        ELSE Raise("ValueError")

\* int(x) of Python
PyInt(x) ==
    CASE x.tag = "int" -> Ok(x.n)
      [] x.tag = "float" -> Ok(IF x.n >= 0 THEN x.n \div 10 ELSE 0 - ((0 - x.n) \div 10))
      [] x.tag = "str" -> PyIntStr(x.s)
      [] x.tag = "inf" -> Raise("OverflowError")
      [] x.tag = "nan" -> Raise("ValueError")
      [] OTHER -> Raise("TypeError")

\* number of trailing '=' of s
RECURSIVE PadLen(_)
PadLen(s) == IF s # <<>> /\ s[Len(s)] = "=" THEN 1 + PadLen(SubSeq(s, 1, Len(s) - 1)) ELSE 0

\* base64.b64decode(payload, validate=True) succeeds
B64Valid(s) ==
    LET k == PadLen(s) IN
    /\ k <= 2
    /\ \A i \in 1..(Len(s) - k) : s[i] \in B64Alphabet
    /\ Len(s) % 4 = 0

\* the bytes decode_audio_base64 returns, as the payload characters they encode
decode_audio_base64(s) == SubSeq(s, 1, Len(s) - PadLen(s))

(* ---- state ------------------------------------------------------------- *)
VARIABLES
    \* closure variables of websocket_endpoint
    audio_queue,            \* asyncio.Queue: sequence of <<chunk, sample_rate>> items
    live_client,            \* GeminiLiveClient | None, as a boolean
    live_task, greeting_task, response_task, tts_task,   \* task handles, 0 = None
    transcript_parts, last_response_index, last_response_at,
    \* the event loop
    tasks,                  \* the task table: the tasks of the connection, by id
    sender_task,            \* _sender of stream_transcription: "none", "get", "send", "end"
    sender_chunk,           \* the item _sender holds while sending
    pc,                     \* receive loop: "recv", "query", "stopping", "closed"
    stopKind, stopWait,     \* the _stop_live_session call in progress: caller, gathered tasks
    now,                    \* time.monotonic()
    api_key,                \* GEMINI_API_KEY is set
    \* what the client sent and saw
    msg,                    \* the frame the receive loop handled last
    replies,                \* frames the receive loop sent while handling msg
    nmsgs,                  \* frames received
    \* history
    nchunks,                \* audio chunks accepted
    enqueued,               \* chunks put on the current audio channel
    forwarded,              \* chunks the sender passed to send_realtime_input
    queried,                \* the transcript slices the response-trigger tasks of the
                            \* session handed to _query_agent, as <<first, last>>
    msgQueries,             \* agent queries issued while handling msg
    limits,                 \* the bounds and the frame shapes this exploration covers
    \* signed values and the login flow
    config,                 \* environment: OIDC_SESSION_SECRET, and the other OIDC settings
    wallclock,              \* time.time(), in ticks
    token, signCall,        \* the value _sign_value returned last, and that call
    verified,               \* the last _verify_signed_value call and its result
    cookies,                \* the state cookie and the session cookie the browser holds
    request, response,      \* the request to /auth/login or /auth/callback served at this
                            \* instant, and its response
    websocket,              \* the WebSocket upgrade: connecting, accepted, or closed with a code
    ws_user,                \* the identity websocket_endpoint found for the connection
    \* one call of _query_agent
    query                   \* the upstream stream, the position in it, the locals, the frames sent

connVars_noquery ==
    <<audio_queue, live_client, live_task, greeting_task, response_task, tts_task,
      transcript_parts, last_response_index, last_response_at, tasks, sender_task,
      sender_chunk, pc, stopKind, stopWait, now, api_key, msg, replies, nmsgs,
      nchunks, enqueued, forwarded, queried, msgQueries, limits>>
connVars == <<connVars_noquery, query>>
wsVars == <<websocket, ws_user>>
authVars == <<config, wallclock, token, signCall, verified, cookies, request, response, wsVars>>
vars == <<connVars, authVars>>

None == 0
Sentinel == [data |-> <<"None">>, rate |-> 0, seq |-> 0]    \* (None, 0)

Frame(type, v) == [type |-> type, v |-> v]
ErrorFrame(message) == Frame("error", message)
StatusFrame(status) == Frame("live_status", status)

(* ---- asyncio tasks ----------------------------------------------------- *)
\* asyncio.create_task(coro): the coroutine has not run yet
NewTask(kind) ==
    [kind |-> kind, pc |-> "init", cancel |-> FALSE, child |-> None, has_audio |-> FALSE,
     sent |-> <<>>]

\* a synthesis task: its first step changes nothing another task can see, so it is
\* created running
NewTts == [NewTask("tts") EXCEPT !.pc = "run"]

\* a slot of the task table that holds no task
Free == [NewTask("none") EXCEPT !.pc = "free"]

Done(t) == t.pc \in {"ok", "err", "cancelled"}      \* Task.done()
TaskIds == {i \in DOMAIN tasks : tasks[i].pc # "free"}
RoomIn(ts, n) == Cardinality({i \in DOMAIN ts : ts[i].pc = "free"}) >= n
Room(n) == RoomIn(tasks, n)

\* the id create_task gives the next task, and the table with that task in it
Slot(ts) == CHOOSE i \in DOMAIN ts : ts[i].pc = "free" /\ \A j \in 1..(i - 1) : ts[j].pc # "free"
Spawn(ts, t) == [ts EXCEPT ![Slot(ts)] = t]

\* a finished task that no handle, no awaiting task and no gather refers to is
\* garbage: its slot is free again
Sweep(ts, refs) ==
    LET awaited == {ts[i].child : i \in {j \in DOMAIN ts : ts[j].pc = "tts"}} IN
    [i \in DOMAIN ts |-> IF Done(ts[i]) /\ i \notin (refs \cup awaited) THEN Free ELSE ts[i]]

\* Task.cancel(): a done task ignores it; a task awaiting another task passes the
\* request on to that task; otherwise CancelledError is thrown at its next step
Cancel_Done(ts, i) ==
    IF i = None THEN ts
    ELSE IF ts[i].child # None /\ ~Done(ts[ts[i].child])
         THEN [ts EXCEPT ![ts[i].child].cancel = TRUE]
         ELSE [ts EXCEPT ![i].cancel = TRUE]
Cancel(ts, i) ==
    IF i = None \/ Done(ts[i]) THEN ts
    ELSE IF ts[i].child # None /\ ~Done(ts[ts[i].child])
         THEN [ts EXCEPT ![ts[i].child].cancel = TRUE]
         ELSE [ts EXCEPT ![i].cancel = TRUE]

RECURSIVE CancelAll(_, _)
CancelAll(ts, ids) == IF ids = <<>> THEN ts ELSE CancelAll(Cancel(ts, Head(ids)), Tail(ids))

(* ---- frames the client can send ---------------------------------------- *)
Payload(type, text, audio, rate) ==
    [json |-> "object", type |-> type, text |-> text, audio |-> audio, sample_rate |-> rate]
Simple(type) == Payload(type, Missing, Missing, Missing)
NotJson == [Simple("none") EXCEPT !.json = "invalid"]       \* json.loads raises
NotObject == [Simple("none") EXCEPT !.json = "array"]       \* valid JSON, not a dict

GoodAudio == StrV(<<"Q", "Q", "=", "=">>)
GoodText == StrV(<<"h">>)
GoodRate == IntV(16000)
TextInputs ==
    {Missing, IntV(7), StrV(<<>>), StrV(<<" ", " ">>), StrV(<<"h">>), StrV(<<" ", "h", "\t">>)}
AudioInputs ==
    {Missing, IntV(7), StrV(<<>>), GoodAudio, StrV(<<"Q", "!", "Q", "Q">>), StrV(<<"Q", "Q", "=">>)}
RateInputs ==
    {Missing, IntV(16000), IntV(0), IntV(-1), FloatV(15), FloatV(5), StrV(<<"1">>),
     StrV(<<"a">>), NullV, InfV, NanV}
AudioChunkInputs ==
    IF limits.wide
    THEN {Payload("audio_chunk", Missing, GoodAudio, r) : r \in RateInputs}
            \cup {Payload("audio_chunk", Missing, a, GoodRate) : a \in AudioInputs}
            \cup {Payload("audio_chunk", Missing, a, IntV(-1)) : a \in {Missing, StrV(<<>>)}}
    ELSE {Payload("audio_chunk", Missing, GoodAudio, GoodRate)}
UserTextInputs ==
    {Payload("user_text", t, Missing, Missing) :
        t \in IF limits.wide THEN TextInputs ELSE {GoodText}}
KnownTypes ==
    {"ping", "user_text", "live_start", "live_stop", "audio_chunk", "speech_pause", "barge_in"}

(* ---- the receive loop (websocket_endpoint, lines 742-879) ------------- *)
\* data = await websocket.receive_text() returned the frame m
Recv_Blocked(m) ==
    /\ pc = "recv"
    /\ \A i \in DOMAIN tasks : ~(tasks[i].kind = "response" /\ tasks[i].pc = "query")
    /\ nmsgs < limits.msgs
    /\ msg' = m
    /\ nmsgs' = nmsgs + 1
Recv(m) ==
    /\ pc = "recv"
    /\ nmsgs < limits.msgs
    /\ msg' = m
    /\ nmsgs' = nmsgs + 1

Handles == <<live_task, greeting_task, response_task, tts_task>>
handleVars == <<live_task, greeting_task, response_task, tts_task, live_client>>
sessionVars == <<transcript_parts, last_response_index, last_response_at>>
fixedVars == <<limits, authVars, query>>
historyVars == <<nchunks, enqueued, forwarded, queried, fixedVars>>
senderVars == <<sender_task, sender_chunk>>
stopVars == <<stopKind, stopWait>>
loopVars == <<pc, stopVars, msg, replies, nmsgs, msgQueries, api_key>>

\* the task table after an action: ts, less the finished tasks nothing refers to any
\* more.  The action has set the handles and stopWait before.
Put(ts) ==
    tasks' = Sweep(ts, {live_task', greeting_task', response_task', tts_task'} \cup stopWait')

\* the handles _stop_live_session cancels and gathers
TasksToCancel == {Handles[i] : i \in 1..4} \ {None}

\* lines 702-706, and what the caller of _stop_live_session does next
StopTail(kind, sent) ==
    /\ live_task' = None
    /\ greeting_task' = None
    /\ response_task' = None
    /\ tts_task' = None
    /\ live_client' = FALSE
    /\ stopKind' = "none"
    /\ stopWait' = {}
    /\ replies' = IF kind = "live_stop" THEN Append(sent, StatusFrame("stopped")) ELSE sent
    /\ pc' = IF kind = "live_stop" THEN "recv" ELSE "closed"

\* _stop_live_session up to its await (lines 689-700); with nothing to gather it
\* does not suspend
StopSession(kind, sent) ==
    /\ audio_queue' = IF live_task # None THEN Append(audio_queue, Sentinel) ELSE audio_queue
    /\ IF TasksToCancel = {}
       THEN StopTail(kind, sent)
       ELSE /\ pc' = "stopping"
            /\ stopKind' = kind
            /\ stopWait' = TasksToCancel
            /\ replies' = sent
            /\ UNCHANGED handleVars
    /\ Put(CancelAll(tasks, Handles))

\* asyncio.gather(*tasks_to_cancel, return_exceptions=True) returned
StopFinish ==
    /\ pc = "stopping"
    /\ \A i \in stopWait : Done(tasks[i])
    /\ StopTail(stopKind, replies)
    /\ Put(tasks)
    /\ UNCHANGED <<audio_queue, sessionVars, senderVars, historyVars, now, api_key, msg,
                   nmsgs, msgQueries>>

\* a handler that only answers
Reply(frame) ==
    /\ replies' = <<frame>>
    /\ msgQueries' = 0
    /\ UNCHANGED <<audio_queue, handleVars, sessionVars, tasks, senderVars, pc, stopVars,
                   now, api_key, historyVars>>

BadFrame ==
    \/ Recv(NotJson) /\ Reply(ErrorFrame("Invalid JSON payload"))
    \/ Recv(NotObject) /\ Reply(ErrorFrame("Payload must be a JSON object"))

Ping == Recv(Simple("ping")) /\ Reply(Frame("pong", ""))

Unsupported ==
    \E t \in IF limits.wide THEN {"bogus", "missing"} ELSE {"bogus"} :
        /\ t \notin KnownTypes
        /\ Recv(Simple(t))
        /\ Reply(ErrorFrame("Unsupported payload type"))

\* message = raw_message.strip(); if not message
EmptyMessage_NoStrip(s) == s = <<>>
EmptyMessage(s) == Strip(s) = <<>>

UserText ==
    \E m \in UserTextInputs :
        LET raw_message == Get(m.text, StrV(<<>>)) IN
        /\ Recv(m)
        /\ IF raw_message.tag # "str"
           THEN Reply(ErrorFrame("Invalid text payload"))
           ELSE IF EmptyMessage(raw_message.s)
           THEN Reply(ErrorFrame("Empty message"))
           ELSE /\ pc' = "query"
                /\ msgQueries' = 1
                /\ replies' = <<>>
                /\ UNCHANGED <<audio_queue, handleVars, sessionVars, tasks, senderVars,
                               stopVars, now, api_key, historyVars>>

\* _query_agent returned to the receive loop (lines 778-780)
UserQueryDone ==
    /\ pc = "query"
    /\ pc' = "recv"
    /\ replies' = Append(replies, Frame("agent_response", "text"))
    /\ UNCHANGED <<audio_queue, handleVars, sessionVars, tasks, senderVars, stopVars, now,
                   api_key, msg, nmsgs, msgQueries, historyVars>>

\* _query_agent raised: the loop's except Exception (lines 872-879)
UserQueryFail ==
    /\ pc = "query"
    /\ StopSession("error", Append(replies, ErrorFrame("exception")))
    /\ UNCHANGED <<sessionVars, senderVars, now, api_key, msg, nmsgs, msgQueries,
                   historyVars>>

\* receive_text raised WebSocketDisconnect (lines 869-871)
Disconnect ==
    /\ pc = "recv"
    /\ StopSession("disconnect", replies)
    /\ UNCHANGED <<sessionVars, senderVars, now, api_key, msg, nmsgs, msgQueries,
                   historyVars>>

LiveStop ==
    /\ Recv(Simple("live_stop"))
    /\ msgQueries' = 0
    /\ StopSession("live_stop", <<>>)
    /\ UNCHANGED <<sessionVars, senderVars, now, api_key, historyVars>>

\* line 612: live_task is not None and not live_task.done()
LiveRunning_Never == FALSE
LiveRunning == live_task # None /\ ~Done(tasks[live_task])

\* _start_live_session (lines 610-687) and the live_start handler (782-792)
LiveStart ==
    /\ Recv(Simple("live_start"))
    /\ msgQueries' = 0
    /\ LiveRunning \/ ~api_key \/ RoomIn(Sweep(tasks, {response_task}), 2)
    /\ UNCHANGED <<response_task, sender_task, sender_chunk, pc, stopVars, now, api_key,
                   nchunks, fixedVars>>
    /\ IF LiveRunning
       THEN /\ replies' = <<StatusFrame("started")>>
            /\ UNCHANGED <<audio_queue, live_client, live_task, greeting_task, tts_task,
                           sessionVars, tasks, enqueued, forwarded, queried>>
       ELSE /\ audio_queue' = <<>>
            /\ enqueued' = <<>>
            /\ forwarded' = <<>>
            /\ IF ~api_key
               THEN \* GeminiLiveClient() raises RuntimeError at line 619
                    /\ live_task' = None
                    /\ replies' = <<ErrorFrame("GEMINI_API_KEY")>>
                    /\ UNCHANGED <<live_client, greeting_task, tts_task, sessionVars, queried>>
                    /\ Put(tasks)
               ELSE LET base == Sweep(tasks, {response_task})
                        with_live == Spawn(base, NewTask("live"))
                    IN
                    /\ live_client' = TRUE
                    /\ last_response_at' = 0
                    /\ last_response_index' = 0
                    /\ tts_task' = None
                    /\ transcript_parts' = <<>>
                    /\ queried' = <<>>
                    /\ live_task' = Slot(base)
                    /\ greeting_task' = Slot(with_live)
                    /\ replies' = <<StatusFrame("started")>>
                    /\ Put(Spawn(with_live, NewTask("greeting")))

\* lines 806-843
AudioChunk ==
    \E m \in AudioChunkInputs :
        LET audio_b64 == m.audio
            sample_rate == PyInt(Get(m.sample_rate, IntV(DEFAULT_SAMPLE_RATE)))
        IN
        /\ Recv(m)
        /\ msgQueries' = 0
        /\ IF ~live_client
           THEN Reply(ErrorFrame("Live session not started"))
           ELSE IF audio_b64.tag # "str"
           THEN Reply(ErrorFrame("Invalid audio payload"))
           ELSE IF ~sample_rate.ok /\ sample_rate.exc \notin {"TypeError", "ValueError"}
           THEN \* the exception leaves the handler: lines 872-879
                /\ StopSession("error", <<ErrorFrame("exception")>>)
                /\ UNCHANGED <<sessionVars, senderVars, now, api_key, historyVars>>
           ELSE IF ~sample_rate.ok \/ sample_rate.n <= 0
           THEN Reply(ErrorFrame("Invalid sample_rate"))
           ELSE IF audio_b64.s = <<>>
           THEN Reply(ErrorFrame("Missing audio payload"))
           ELSE IF ~B64Valid(audio_b64.s)
           THEN Reply(ErrorFrame("Invalid audio payload"))
           ELSE LET item == [data |-> decode_audio_base64(audio_b64.s),
                             rate |-> sample_rate.n, seq |-> nchunks + 1] IN
                /\ nchunks < limits.chunks
                /\ audio_queue' = Append(audio_queue, item)
                /\ enqueued' = Append(enqueued, item)
                /\ nchunks' = nchunks + 1
                /\ replies' = <<>>
                /\ UNCHANGED <<handleVars, sessionVars, tasks, senderVars, pc, stopVars, now,
                               api_key, forwarded, queried, fixedVars>>

\* line 846: response_task is None and live_client is not None
PauseGuard_NoTaskCheck == live_client
PauseGuard == response_task = None /\ live_client

\* lines 845-851
SpeechPause ==
    /\ Recv(Simple("speech_pause"))
    /\ msgQueries' = 0
    /\ replies' = <<StatusFrame("speech_pause")>>
    /\ UNCHANGED <<audio_queue, live_client, live_task, greeting_task, tts_task, sessionVars,
                   senderVars, pc, stopVars, now, api_key, historyVars>>
    /\ IF PauseGuard
       THEN /\ Room(1)
            /\ response_task' = Slot(tasks)
            /\ Put(Spawn(tasks, NewTask("response")))
       ELSE UNCHANGED <<tasks, response_task>>

\* lines 854-859: the handles barge_in cancels
BargeInTargets_All == <<live_task, greeting_task, response_task, tts_task>>
BargeInTargets == <<greeting_task, response_task, tts_task>>

\* lines 853-863
BargeIn ==
    /\ Recv(Simple("barge_in"))
    /\ msgQueries' = 0
    /\ replies' = <<StatusFrame("barge_in")>>
    /\ tasks' = CancelAll(tasks, BargeInTargets)
    /\ UNCHANGED <<audio_queue, handleVars, sessionVars, senderVars, pc, stopVars, now,
                   api_key, historyVars>>

(* ---- background tasks -------------------------------------------------- *)
Is(i, kind, at) == tasks[i].kind = kind /\ tasks[i].pc = at /\ ~tasks[i].cancel
Set(i, at) == [tasks EXCEPT ![i].pc = at]

\* _speak_text / _trigger_agent_response: finally: if tts_task is current_task: tts_task = None
ClearTts(i) == IF tasks[i].pc = "tts" /\ tts_task = tasks[i].child THEN None ELSE tts_task

\* CancelledError is thrown into task i where it is suspended.  A coroutine that has
\* not started runs none of its code, so none of its finally blocks.  A cancelled
\* _stream takes the sender of stream_transcription down with it (live_api.py 83-86).
Cancelled ==
    \E i \in TaskIds :
        LET t == tasks[i] IN
        /\ ~Done(t)
        /\ t.cancel
        /\ tts_task' = IF t.kind \in {"greeting", "response"} THEN ClearTts(i) ELSE tts_task
        /\ response_task' = IF t.kind = "response" /\ t.pc # "init" THEN None ELSE response_task
        /\ sender_task' = IF t.kind = "live" /\ t.pc # "init" THEN "none" ELSE sender_task
        /\ UNCHANGED <<audio_queue, live_client, live_task, greeting_task, sessionVars,
                       sender_chunk, loopVars, now, historyVars>>
        /\ Put(Set(i, "cancelled"))

\* _stream starts: stream_transcription connects and creates its _sender task
LiveRun ==
    \E i \in TaskIds :
        /\ Is(i, "live", "init")
        /\ tasks' = Set(i, "recv")
        /\ sender_task' = "get"
        /\ UNCHANGED <<audio_queue, handleVars, sessionVars, sender_chunk, loopVars, now,
                       historyVars>>

\* The event loop runs callbacks first in, first out: _greeting, created right after
\* _stream, has run its first step before the transcription stream of that _stream
\* delivers anything.
GreetingStarted == \A i \in TaskIds : tasks[i].kind = "greeting" => tasks[i].pc # "init"

Fragments == {<<"a">>, <<" ">>}      \* response.text, truthy

\* lines 628-633: a transcribed fragment arrives
Fragment ==
    \E i \in TaskIds, text \in Fragments :
        /\ Is(i, "live", "recv")
        /\ GreetingStarted
        /\ Len(transcript_parts) < limits.frags
        /\ transcript_parts' = Append(transcript_parts, text)
        /\ tasks' = Set(i, "send")
        /\ UNCHANGED <<audio_queue, handleVars, last_response_index, last_response_at,
                       senderVars, loopVars, now, historyVars>>

\* line 635: response_task is None and now - last_response_at > 2.0
DebounceGuard_NoTaskCheck == now - last_response_at > DEBOUNCE_SEC
DebounceGuard == response_task = None /\ now - last_response_at > DEBOUNCE_SEC

\* lines 634-636, after the live_user_text frame went out
FragmentSent ==
    \E i \in TaskIds :
        /\ Is(i, "live", "send")
        /\ UNCHANGED <<audio_queue, live_client, live_task, greeting_task, tts_task,
                       sessionVars, senderVars, loopVars, now, historyVars>>
        /\ IF DebounceGuard
           THEN /\ Room(1)
                /\ response_task' = Slot(tasks)
                /\ Put(Spawn(Set(i, "recv"), NewTask("response")))
           ELSE /\ tasks' = Set(i, "recv")
                /\ UNCHANGED response_task

\* the upstream transcription stream ends or raises: _stream ends on its own, and
\* stream_transcription cancels its sender (live_api.py lines 83-86)
LiveEnd ==
    \E i \in TaskIds, how \in {"ok", "err"} :
        /\ Is(i, "live", "recv")
        /\ GreetingStarted
        /\ sender_task' = "none"
        /\ UNCHANGED <<audio_queue, handleVars, sessionVars, sender_chunk, loopVars, now,
                       historyVars>>
        /\ Put(Set(i, how))

\* asyncio.Queue.get(): first in, first out
QueueGet_Lifo(q) == [item |-> q[Len(q)], rest |-> SubSeq(q, 1, Len(q) - 1)]
QueueGet(q) == [item |-> Head(q), rest |-> Tail(q)]

\* live_api.py lines 67-69
SenderGet ==
    /\ sender_task = "get"
    /\ audio_queue # <<>>
    /\ LET got == QueueGet(audio_queue) IN
        /\ audio_queue' = got.rest
        /\ sender_chunk' = got.item
        /\ sender_task' = IF got.item = Sentinel THEN "end" ELSE "send"
    /\ UNCHANGED <<handleVars, sessionVars, tasks, loopVars, now, historyVars>>

\* live_api.py lines 70-75: send_realtime_input returned
SenderSent ==
    /\ sender_task = "send"
    /\ forwarded' = Append(forwarded, sender_chunk)
    /\ sender_task' = "get"
    /\ UNCHANGED <<audio_queue, handleVars, sessionVars, tasks, sender_chunk, loopVars, now,
                   nchunks, enqueued, queried, fixedVars>>

\* the frames _greeting sends: the greeting text (lines 669, 680) and a status
GreetingText == Frame("live_text", "greeting_text")

\* lines 671-685, once the awaited synthesis task (child) is done: CancelledError is
\* no Exception and leaves _greeting; an Exception is caught; sent_audio is the
\* has_audio of a synthesis that ended by itself
GreetingSends_CatchAll(child) ==
    IF child.pc \in {"err", "cancelled"} THEN <<GreetingText, StatusFrame("greeting_error")>>
    ELSE IF ~child.has_audio THEN <<StatusFrame("greeting_no_audio")>>
    ELSE <<>>
GreetingSends(child) ==
    IF child.pc = "cancelled" THEN <<>>
    ELSE IF child.pc = "err" THEN <<GreetingText, StatusFrame("greeting_error")>>
    ELSE IF ~child.has_audio THEN <<StatusFrame("greeting_no_audio")>>
    ELSE <<>>

\* _greeting sends the greeting text (line 669) and, in _speak_text, creates the
\* synthesis task and awaits it (lines 656-659)
GreetingRun ==
    \E i \in TaskIds :
        /\ Is(i, "greeting", "init")
        /\ Room(1)
        /\ tts_task' = Slot(tasks)
        /\ UNCHANGED <<audio_queue, live_client, live_task, greeting_task, response_task,
                       sessionVars, senderVars, loopVars, now, historyVars>>
        /\ Put(Spawn([tasks EXCEPT ![i].pc = "tts", ![i].child = Slot(tasks),
                                    ![i].sent = <<GreetingText>>], NewTts))

\* lines 660-685: the awaited synthesis task is done
GreetingWake ==
    \E i \in TaskIds :
        /\ Is(i, "greeting", "tts")
        /\ Done(tasks[tasks[i].child])
        /\ tts_task' = ClearTts(i)
        /\ UNCHANGED <<audio_queue, live_client, live_task, greeting_task, response_task,
                       sessionVars, senderVars, loopVars, now, historyVars>>
        /\ Put([tasks EXCEPT
                    ![i].pc = IF tasks[tasks[i].child].pc = "cancelled" THEN "cancelled" ELSE "ok",
                    ![i].has_audio = tasks[tasks[i].child].pc = "ok"
                                        /\ tasks[tasks[i].child].has_audio,
                    ![i].sent = @ \o GreetingSends(tasks[tasks[i].child])])

\* _run / _run_tts (lines 644-654, 721-729): the synthesis stream ends or raises,
\* having relayed audio frames (has_audio) or none
TtsEnd ==
    \E i \in TaskIds, how \in {"ok", "err"}, audio \in BOOLEAN :
        /\ Is(i, "tts", "run")
        /\ UNCHANGED <<audio_queue, handleVars, sessionVars, senderVars, loopVars, now,
                       historyVars>>
        /\ Put([tasks EXCEPT ![i].pc = how, ![i].has_audio = audio])

RECURSIVE Join(_)
Join(parts) ==      \* " ".join(parts)
    IF parts = <<>> THEN <<>>
    ELSE IF Len(parts) = 1 THEN parts[1]
    ELSE parts[1] \o <<" ">> \o Join(Tail(parts))

\* transcript_parts[last_response_index:], as the positions of its first and last
\* fragment
Slice_FromStart(index) == <<1, Len(transcript_parts)>>
Slice(index) == <<index + 1, Len(transcript_parts)>>

\* line 711
Unconsumed_NoStrip ==
    Join(SubSeq(transcript_parts, Slice(last_response_index)[1], Slice(last_response_index)[2]))
Unconsumed ==
    Strip(Join(SubSeq(transcript_parts, Slice(last_response_index)[1], Slice(last_response_index)[2])))

\* _trigger_agent_response lines 710-715
ResponseRun ==
    \E i \in TaskIds :
        /\ Is(i, "response", "init")
        /\ UNCHANGED <<audio_queue, live_client, live_task, greeting_task, tts_task,
                       transcript_parts, last_response_at, senderVars, loopVars, now,
                       nchunks, enqueued, forwarded, fixedVars>>
        /\ IF Unconsumed = <<>>
           THEN /\ response_task' = None
                /\ UNCHANGED <<last_response_index, queried>>
                /\ Put(Set(i, "ok"))
           ELSE /\ last_response_index' = Len(transcript_parts)
                /\ queried' = Append(queried, Slice(last_response_index))
                /\ UNCHANGED response_task
                /\ tasks' = Set(i, "query")

\* lines 716-740: _query_agent returned its answer
ResponseAnswer ==
    \E i \in TaskIds, response_text \in {<<>>, <<"o", "k">>} :
        /\ Is(i, "response", "query")
        /\ UNCHANGED <<audio_queue, live_client, live_task, greeting_task, transcript_parts,
                       last_response_index, senderVars, loopVars, now, historyVars>>
        /\ IF response_text # <<>>
           THEN /\ Room(1)
                /\ tts_task' = Slot(tasks)
                /\ UNCHANGED <<response_task, last_response_at>>
                /\ Put(Spawn([tasks EXCEPT ![i].pc = "tts", ![i].child = Slot(tasks)], NewTts))
           ELSE /\ last_response_at' = now
                /\ response_task' = None
                /\ UNCHANGED tts_task
                /\ Put(Set(i, "ok"))

\* _query_agent raised inside the task
ResponseFail ==
    \E i \in TaskIds :
        /\ Is(i, "response", "query")
        /\ response_task' = None
        /\ UNCHANGED <<audio_queue, live_client, live_task, greeting_task, tts_task,
                       sessionVars, senderVars, loopVars, now, historyVars>>
        /\ Put(Set(i, "err"))

\* lines 733-740: the awaited synthesis task is done
ResponseWake ==
    \E i \in TaskIds :
        LET end == tasks[tasks[i].child].pc IN
        /\ Is(i, "response", "tts")
        /\ Done(tasks[tasks[i].child])
        /\ tts_task' = ClearTts(i)
        /\ response_task' = None
        /\ last_response_at' = IF end = "ok" THEN now ELSE last_response_at
        /\ UNCHANGED <<audio_queue, live_client, live_task, greeting_task, transcript_parts,
                       last_response_index, senderVars, loopVars, now, historyVars>>
        /\ Put(Set(i, end))

\* the clock advances; once the quiet interval has passed, more time changes nothing
Tick ==
    /\ now < limits.clock
    /\ now - last_response_at <= DEBOUNCE_SEC
    /\ now' = now + 1
    /\ UNCHANGED <<audio_queue, handleVars, sessionVars, tasks, senderVars, loopVars,
                   historyVars>>

(* ---- signed values (_sign_value, _verify_signed_value) ---------------- *)
\* A dict whose keys are str is a sequence of <<key, value>> pairs in insertion order;
\* a str is a sequence of characters, a value is a StrV or an IntV.
kExp == <<"e", "x", "p">>
kSub == <<"s", "u", "b">>
kName == <<"n", "a", "m", "e">>
kEmail == <<"e", "m", "a", "i", "l">>
kUsername == <<"p", "r", "e", "f">>     \* preferred_username
kState == <<"s", "t", "a", "t", "e">>
kNonce == <<"n", "o", "n", "c", "e">>
kNext == <<"n", "e", "x", "t">>

HasKey(d, k) == \E i \in 1..Len(d) : d[i][1] = k
KeyAt(d, k) == CHOOSE i \in 1..Len(d) : d[i][1] = k
\* d.get(k, default)
DictGet(d, k, default) == IF HasKey(d, k) THEN d[KeyAt(d, k)][2] ELSE default
\* d[k] = v
DictSet(d, k, v) == IF HasKey(d, k) THEN [d EXCEPT ![KeyAt(d, k)] = <<k, v>>] ELSE Append(d, <<k, v>>)

Lower ==
    <<"a", "b", "c", "d", "e", "f", "g", "h", "i", "j", "k", "l", "m", "n", "o", "p", "q", "r", "s",
      "t", "u", "v", "w", "x", "y", "z">>
DigitChars == <<"0", "1", "2", "3", "4", "5", "6", "7", "8", "9">>
Punctuation == <<"\"", ",", "-", "/", ":", "_", "{", "}">>
PunctuationCodes == <<34, 44, 45, 47, 58, 95, 123, 125>>
Range(q) == {q[i] : i \in 1..Len(q)}
Index(q, c) == CHOOSE i \in 1..Len(q) : q[i] = c

\* ord(c) of the characters the values are written in
Ord ==
    [c \in Range(Lower) \cup Range(DigitChars) \cup Range(Punctuation) |->
        IF c \in Range(Lower) THEN 96 + Index(Lower, c)
        ELSE IF c \in Range(DigitChars) THEN 47 + Index(DigitChars, c)
        ELSE PunctuationCodes[Index(Punctuation, c)]]
Chr == [n \in {Ord[c] : c \in DOMAIN Ord} |-> CHOOSE c \in DOMAIN Ord : Ord[c] = n]

Good(v) == [ok |-> TRUE, val |-> v]
Bad == [ok |-> FALSE, val |-> <<>>]

\* str.encode("utf-8") and bytes.decode("utf-8")
Utf8Encode(text) == [i \in 1..Len(text) |-> Ord[text[i]]]
Utf8Decode(bytes) ==
    IF \A i \in 1..Len(bytes) : bytes[i] \in DOMAIN Chr
    THEN Good([i \in 1..Len(bytes) |-> Chr[bytes[i]]])
    ELSE Bad

RECURSIVE Decimal(_)
Decimal(n) ==       \* str(n) of an int
    IF n < 0 THEN <<"-">> \o Decimal(0 - n)
    ELSE IF n < 10 THEN <<DigitChars[n + 1]>>
    ELSE Decimal(n \div 10) \o <<DigitChars[(n % 10) + 1]>>

Quote(chars) == <<"\"">> \o chars \o <<"\"">>
JsonValue(v) == IF v.tag = "str" THEN Quote(v.s) ELSE Decimal(v.n)

RECURSIVE JsonMembers(_)
JsonMembers(d) ==
    IF d = <<>> THEN <<>>
    ELSE Quote(d[1][1]) \o <<":">> \o JsonValue(d[1][2])
            \o (IF Len(d) > 1 THEN <<",">> \o JsonMembers(Tail(d)) ELSE <<>>)

\* json.dumps(body, ensure_ascii=False, separators=(",", ":")) of a dict of str and
\* int values that need no escaping
json_dumps(d) == <<"{">> \o JsonMembers(d) \o <<"}">>

Parsed(v, next) == [ok |-> TRUE, val |-> v, next |-> next]
NotParsed == [ok |-> FALSE, val |-> <<>>, next |-> 0]

RECURSIVE Find(_, _, _)
Find(t, c, i) == IF i > Len(t) THEN 0 ELSE IF t[i] = c THEN i ELSE Find(t, c, i + 1)

ParseString(t, i) ==
    IF i > Len(t) \/ t[i] # "\"" THEN NotParsed
    ELSE LET j == Find(t, "\"", i + 1) IN
         IF j = 0 THEN NotParsed ELSE Parsed(StrV(SubSeq(t, i + 1, j - 1)), j + 1)

RECURSIVE DigitsEnd(_, _)
DigitsEnd(t, i) == IF i <= Len(t) /\ t[i] \in Digits THEN DigitsEnd(t, i + 1) ELSE i

ParseNumber(t, i) ==
    LET neg == i <= Len(t) /\ t[i] = "-"
        from == IF neg THEN i + 1 ELSE i
        to == DigitsEnd(t, from)
        n == DigitsVal(SubSeq(t, from, to - 1), 0)
    IN  IF to = from \/ (to > from + 1 /\ t[from] = "0") THEN NotParsed
        ELSE Parsed(IntV(IF neg THEN 0 - n ELSE n), to)

ParseValue(t, i) == IF i <= Len(t) /\ t[i] = "\"" THEN ParseString(t, i) ELSE ParseNumber(t, i)

RECURSIVE ParseMembers(_, _, _)
ParseMembers(t, i, acc) ==
    LET k == ParseString(t, i) IN
    IF ~k.ok \/ k.next > Len(t) \/ t[k.next] # ":" THEN NotParsed
    ELSE LET v == ParseValue(t, k.next + 1) IN
         IF ~v.ok \/ v.next > Len(t) THEN NotParsed
         ELSE LET d == DictSet(acc, k.val.s, v.val) IN
              IF t[v.next] = "," THEN ParseMembers(t, v.next + 1, d)
              ELSE IF t[v.next] = "}" /\ v.next = Len(t) THEN Parsed(d, v.next + 1)
              ELSE NotParsed

\* json.loads(text) of a compact object of str and int values; anything else raises
json_loads(t) ==
    IF t = <<"{", "}">> THEN Good(<<>>)
    ELSE IF Len(t) > 2 /\ t[1] = "{"
         THEN LET p == ParseMembers(t, 2, <<>>) IN IF p.ok THEN Good(p.val) ELSE Bad
         ELSE Bad

\* Base64 text is a sequence of indices into the URL-safe alphabet; PadChar is '='
PadChar == 64

RECURSIVE urlsafe_b64encode(_)
urlsafe_b64encode(b) ==
    IF b = <<>> THEN <<>>
    ELSE IF Len(b) = 1 THEN <<b[1] \div 4, (b[1] % 4) * 16, PadChar, PadChar>>
    ELSE IF Len(b) = 2
    THEN <<b[1] \div 4, (b[1] % 4) * 16 + b[2] \div 16, (b[2] % 16) * 4, PadChar>>
    ELSE <<b[1] \div 4, (b[1] % 4) * 16 + b[2] \div 16, (b[2] % 16) * 4 + b[3] \div 64,
           b[3] % 64>> \o urlsafe_b64encode(SubSeq(b, 4, Len(b)))

RECURSIVE RStripPad(_)
RStripPad(s) ==     \* .rstrip("=")
    IF s # <<>> /\ s[Len(s)] = PadChar THEN RStripPad(SubSeq(s, 1, Len(s) - 1)) ELSE s

_base64url_encode(raw) == RStripPad(urlsafe_b64encode(raw))

\* one group of four characters, the last of the text or not
DecodeGroup(g, last) ==
    IF g[1] = PadChar \/ g[2] = PadChar THEN Bad
    ELSE IF g[3] = PadChar
    THEN IF last /\ g[4] = PadChar THEN Good(<<g[1] * 4 + g[2] \div 16>>) ELSE Bad
    ELSE IF g[4] = PadChar
    THEN IF last THEN Good(<<g[1] * 4 + g[2] \div 16, (g[2] % 16) * 16 + g[3] \div 4>>) ELSE Bad
    ELSE Good(<<g[1] * 4 + g[2] \div 16, (g[2] % 16) * 16 + g[3] \div 4, (g[3] % 4) * 64 + g[4]>>)

RECURSIVE urlsafe_b64decode(_)
urlsafe_b64decode(s) ==
    IF s = <<>> THEN Good(<<>>)
    ELSE IF Len(s) < 4 THEN Bad
    ELSE LET head == DecodeGroup(SubSeq(s, 1, 4), Len(s) = 4)
             rest == urlsafe_b64decode(SubSeq(s, 5, Len(s)))
         IN  IF head.ok /\ rest.ok THEN Good(head.val \o rest.val) ELSE Bad

\* raw + "=" * (-len(raw) % 4), then urlsafe_b64decode
_base64url_decode(raw) ==
    urlsafe_b64decode(raw \o [i \in 1..((4 - (Len(raw) % 4)) % 4) |-> PadChar])

\* hmac.new(key, msg, sha256).digest(): a keyed digest that differs whenever the key
\* or the message differs.  Its own Base64 text is carried as the digest itself.
Mac(key, body) == [key |-> key, body |-> body]
NoMac == Mac(<<>>, <<>>)

\* a cookie value: absent or empty ("none"), text without '.' ("plain"), or
\* body_b64 "." sig_b64 ("dotted")
Token(body, sig) == [form |-> "dotted", body |-> body, sig |-> sig]
NoToken == [form |-> "none", body |-> <<>>, sig |-> NoMac]
PlainText == [form |-> "plain", body |-> <<0>>, sig |-> NoMac]

Time == wallclock \div TicksPerSec      \* int(time.time())

_sign_value(payload, ttl_sec) ==
    IF config.secret = <<>> THEN Bad       \* RuntimeError
    ELSE LET body == DictSet(payload, kExp, IntV(Time + ttl_sec))
             body_b64 == _base64url_encode(Utf8Encode(json_dumps(body)))
         IN  Good(Token(body_b64, Mac(config.secret, body_b64)))

\* line 160: int(payload.get("exp", 0)) < int(time.time())
Expired_AtExp(exp, t) == exp <= t
Expired(exp, t) == exp < t

\* an exception raised inside the try of _verify_signed_value
Raised(exc) == [ok |-> FALSE, val |-> <<>>, exc |-> exc]

\* sig_b64 as a client can rewrite it: followed by '=', which the decoder takes as
\* padding of the same digest, or a single character, which is no Base64
Padded(sig) == [key |-> sig.key, body |-> sig.body, text |-> "="]
NotBase64 == [key |-> <<>>, body |-> <<>>, text |-> "A"]
\* line 156: _base64url_decode(sig_b64)
SigDecode(sig) ==
    IF sig = NotBase64 THEN Raised("binascii.Error") ELSE Good(Mac(sig.key, sig.body))

\* lines 149-162: the body of the try
VerifyPayload(value) ==
    LET raw == _base64url_decode(value.body)
        text == Utf8Decode(raw.val)
        payload == json_loads(text.val)
        exp == PyInt(DictGet(payload.val, kExp, IntV(0)))
    IN  IF ~raw.ok THEN Raised("binascii.Error")
        ELSE IF ~text.ok THEN Raised("UnicodeDecodeError")
        ELSE IF ~payload.ok THEN Raised("JSONDecodeError")
        ELSE IF ~exp.ok THEN Raised(exp.exc)
        ELSE IF Expired(exp.n, Time) THEN Bad
        ELSE Good(payload.val)
VerifyBody(value) ==
    IF ~SigDecode(value.sig).ok THEN SigDecode(value.sig)
    ELSE IF SigDecode(value.sig).val # Mac(config.secret, value.body) THEN Bad
    ELSE VerifyPayload(value)

\* lines 163-165: except Exception: return None
Caught_Not(result) == result
Caught(result) == IF result.ok \/ result = Bad THEN result ELSE Bad

\* the payload, or Bad for None
_verify_signed_value(value) ==
    IF value.form # "dotted" \/ config.secret = <<>> THEN Bad
    ELSE Caught(VerifyBody(value))

\* the dict a signed value carries
Body(value) == json_loads(Utf8Decode(_base64url_decode(value.body).val).val).val

\* what a client can make of a value it holds: as it is, with its first character
\* moved to the end, signed with another key, saying another state, without '.', none
Tampered(value, how) ==
    CASE how = "none" -> value
      [] how = "body" -> [value EXCEPT !.body = Tail(value.body) \o <<Head(value.body)>>]
      [] how = "sig" -> [value EXCEPT !.sig = Mac(<<"x">>, value.body)]
      [] how = "state" ->
            [value EXCEPT !.body = _base64url_encode(Utf8Encode(json_dumps(
                                        DictSet(Body(value), kState, StrV(<<"t">>)))))]
      [] how = "plain" -> PlainText
      [] how = "absent" -> NoToken
      [] how = "padded" -> [value EXCEPT !.sig = Padded(value.sig)]
      [] how = "badsig" -> [value EXCEPT !.sig = NotBase64]

\* values no _sign_value of this process made, their MAC computed with the configured
\* secret: a body that is no Base64, no UTF-8, no JSON, or whose exp is no number; and
\* a well-formed unexpired value whose MAC is computed with the empty key
ForgedHows == {"garbage", "notutf8", "notjson", "badexp", "emptykey"}
ForgedBody(how) ==
    CASE how = "garbage" -> <<0>>
      [] how = "notutf8" -> _base64url_encode(<<255>>)
      [] how = "notjson" -> _base64url_encode(Utf8Encode(<<"a">>))
      [] how = "badexp" ->
            _base64url_encode(Utf8Encode(json_dumps(<<<<kExp, StrV(<<"a">>)>>>>)))
      [] how = "emptykey" ->
            _base64url_encode(Utf8Encode(json_dumps(<<<<kExp, IntV(OIDC_SESSION_TTL_SEC)>>>>)))
Forged(how) ==
    Token(ForgedBody(how), Mac(IF how = "emptykey" THEN <<>> ELSE config.secret, ForgedBody(how)))

UserPayload == <<<<kSub, StrV(<<"u">>)>>>>
PayloadInputs == {UserPayload, <<<<kExp, IntV(9)>>, <<kSub, StrV(<<"u">>)>>>>, <<>>}

NoCall == [payload |-> <<>>, ttl |-> 0, at |-> 0, ok |-> FALSE]
NotVerified == [done |-> FALSE, at |-> 0, how |-> "none", result |-> Bad]

authFrame == <<cookies, request, response>>
tokenFrame == <<token, signCall, verified>>

\* a call of _sign_value
Sign ==
    \E payload \in PayloadInputs, ttl_sec \in 0..MaxTtl :
        LET signed == _sign_value(payload, ttl_sec) IN
        /\ token' = IF signed.ok THEN signed.val ELSE NoToken
        /\ signCall' = [payload |-> payload, ttl |-> ttl_sec, at |-> wallclock, ok |-> signed.ok]
        /\ verified' = NotVerified
        /\ UNCHANGED <<connVars, wsVars, config, wallclock, authFrame>>

\* a call of _verify_signed_value on what the client made of the signed value
Verify ==
    \E how \in {"none", "body", "sig", "plain", "absent"} :
        /\ signCall.ok
        /\ verified' = [done |-> TRUE, at |-> wallclock, how |-> how,
                        result |-> _verify_signed_value(Tampered(token, how))]
        /\ UNCHANGED <<connVars, wsVars, config, wallclock, token, signCall, authFrame>>

\* a call of _verify_signed_value on a signed value whose sig_b64 the client rewrote,
\* on a value that came from elsewhere, or on none
VerifyForged ==
    \E how \in ForgedHows \cup {"plain", "absent", "padded", "badsig"} :
        /\ how \in {"padded", "badsig"} => signCall.ok
        /\ verified' = [done |-> TRUE, at |-> wallclock, how |-> how,
                        result |-> _verify_signed_value(
                                     IF how \in ForgedHows THEN Forged(how)
                                     ELSE Tampered(IF signCall.ok THEN token ELSE NoToken, how))]
        /\ UNCHANGED <<connVars, wsVars, config, wallclock, token, signCall, authFrame>>

(* ---- the login flow (auth_login, auth_callback) ----------------------- *)
_is_oidc_ready == config.oidc /\ config.secret # <<>>

States == {<<"s">>}         \* secrets.token_urlsafe(24)
Nonces == {<<"n">>}

\* what the token endpoint answers and what the id token it returns is like
NoIdp == [kind |-> "none", sig |-> FALSE, iss |-> FALSE, aud |-> FALSE, fresh |-> FALSE,
          claims |-> <<>>]
IdToken(sig, iss, aud, fresh, claims) ==
    [kind |-> "token", sig |-> sig, iss |-> iss, aud |-> aud, fresh |-> fresh, claims |-> claims]
Claims(nonce) == <<<<kSub, StrV(<<"u">>)>>, <<kNonce, StrV(nonce)>>>>
IdpOutcomes ==
    {[NoIdp EXCEPT !.kind = "raise"], [NoIdp EXCEPT !.kind = "empty"]}
        \cup {IdToken(TRUE, TRUE, TRUE, TRUE, Claims(n)) : n \in {<<"n">>, <<"m">>}}
        \cup {IdToken(TRUE, TRUE, TRUE, TRUE, <<<<kSub, StrV(<<"u">>)>>>>),
              IdToken(FALSE, TRUE, TRUE, TRUE, Claims(<<"n">>)),
              IdToken(TRUE, FALSE, TRUE, TRUE, Claims(<<"n">>)),
              IdToken(TRUE, TRUE, FALSE, TRUE, Claims(<<"n">>)),
              IdToken(TRUE, TRUE, TRUE, FALSE, Claims(<<"n">>))}

Request(route, cookie, code, state, idp) ==
    [route |-> route, cookie |-> cookie, code |-> code, state |-> state, idp |-> idp]
Response(status, message, session) ==
    [status |-> status, message |-> message, session |-> session]
NoRequest == Request("none", NoToken, <<>>, <<>>, NoIdp)
NoResponse == Response("none", "", NoToken)
NoCookies == [state |-> NoToken, session |-> NoToken]

\* _build_post_login_redirect, for the one target the model uses
RootUrl == <<"/">>

\* GET /auth/login (lines 505-541)
AuthLogin ==
    \E metadata \in {"raise", "empty", "ok"}, state \in States, nonce \in Nonces :
        /\ request' = Request("login", NoToken, <<>>, <<>>, [NoIdp EXCEPT !.kind = metadata])
        /\ IF ~_is_oidc_ready
           THEN /\ response' = Response("error", "OIDC is not fully configured.", NoToken)
                /\ UNCHANGED cookies
           ELSE IF metadata = "raise"
           THEN /\ response' = Response("exception", "", NoToken)
                /\ UNCHANGED cookies
           ELSE IF metadata = "empty"
           THEN /\ response' = Response("error", "OIDC authorization_endpoint not found.", NoToken)
                /\ UNCHANGED cookies
           ELSE /\ cookies' = [cookies EXCEPT !.state =
                    _sign_value(<<<<kState, StrV(state)>>, <<kNonce, StrV(nonce)>>,
                                  <<kNext, StrV(RootUrl)>>>>, OIDC_STATE_TTL_SEC).val]
                /\ response' = Response("redirect", "", NoToken)
        /\ UNCHANGED <<connVars, wsVars, config, wallclock, tokenFrame>>

\* str(x)
PyStr(v) == CASE v.tag = "str" -> v.s [] v.tag = "int" -> Decimal(v.n) [] OTHER -> <<"N">>

\* line 552: state_cookie.get("state") != state, negated
StateMatches_Always(cookie_state, state) == TRUE
StateMatches(cookie_state, state) == cookie_state = StrV(state)

\* _validate_id_token (lines 239-256): jwt.decode checks signature, expiry, audience
\* and issuer and raises on any failure; then the nonce
_validate_id_token(id_token, expected_nonce) ==
    IF ~(id_token.sig /\ id_token.fresh /\ id_token.aud /\ id_token.iss) THEN Bad
    ELSE IF expected_nonce # <<>> /\ DictGet(id_token.claims, kNonce, NullV) # StrV(expected_nonce)
    THEN Bad
    ELSE Good(id_token.claims)

\* the values a client can send as the state cookie: none, text, the cookies it holds,
\* the state cookie signed with another key or restated
CookieInputs ==
    {NoToken, PlainText, cookies.state}
        \cup (IF cookies.state.form = "dotted"
              THEN {Tampered(cookies.state, "sig"), Tampered(cookies.state, "state")}
              ELSE {})
        \cup (IF cookies.session.form = "dotted" THEN {cookies.session} ELSE {})

\* the callback returns an error before it contacts the identity provider
Refuse(cookie, code, state, message) ==
    /\ request' = Request("callback", cookie, code, state, NoIdp)
    /\ response' = Response("error", message, NoToken)
    /\ UNCHANGED cookies

\* lines 561-565
SessionPayload(claims) ==
    <<<<kSub, DictGet(claims, kSub, StrV(<<>>))>>,
      <<kName, DictGet(claims, kName, DictGet(claims, kUsername, StrV(<<>>)))>>,
      <<kEmail, DictGet(claims, kUsername, DictGet(claims, kEmail, StrV(<<>>)))>>>>

\* lines 555-579: the code is exchanged, the id token validated, the session minted
Exchange(cookie, code, state, state_cookie, idp) ==
    /\ request' = Request("callback", cookie, code, state, idp)
    /\ IF idp.kind = "raise"
       THEN response' = Response("exception", "", NoToken) /\ UNCHANGED cookies
       ELSE IF idp.kind = "empty"
       THEN /\ response' = Response("error", "id_token was not returned.", NoToken)
            /\ UNCHANGED cookies
       ELSE \E claims \in {_validate_id_token(idp, PyStr(DictGet(state_cookie, kNonce, StrV(<<>>))))} :
            IF ~claims.ok
            THEN response' = Response("exception", "", NoToken) /\ UNCHANGED cookies
            ELSE \E minted \in {_sign_value(SessionPayload(claims.val), OIDC_SESSION_TTL_SEC).val} :
                 /\ response' = Response("redirect", "", minted)
                 /\ cookies' = [state |-> NoToken, session |-> minted]

\* GET /auth/callback (lines 544-579)
AuthCallback ==
    \E cookie \in CookieInputs, code \in {<<>>, <<"c">>}, state \in {<<>>, <<"s">>, <<"t">>} :
        \E state_cookie \in {_verify_signed_value(cookie)} :
            /\ UNCHANGED <<connVars, wsVars, config, wallclock, tokenFrame>>
            /\ IF ~_is_oidc_ready
               THEN Refuse(cookie, code, state, "OIDC is not fully configured.")
               ELSE IF code = <<>> \/ state = <<>> \/ ~state_cookie.ok
               THEN Refuse(cookie, code, state, "Missing OIDC callback parameters.")
               ELSE IF ~StateMatches(DictGet(state_cookie.val, kState, NullV), state)
               THEN Refuse(cookie, code, state, "OIDC state mismatch.")
               ELSE \E idp \in IdpOutcomes : Exchange(cookie, code, state, state_cookie.val, idp)

(* ---- the WebSocket upgrade (websocket_endpoint, lines 590-597) --------- *)
kAnonymous == <<"a", "n", "o", "n", "y", "m", "o", "u", "s">>
Anonymous == <<<<kSub, StrV(kAnonymous)>>>>        \* {"sub": "anonymous"}

\* lines 271-279: the user of the session cookie, or Bad for None
_get_session_user_from_cookie(cookie) ==
    LET payload == _verify_signed_value(cookie) IN
    IF ~payload.ok \/ payload.val = <<>> THEN Bad       \* if not payload
    ELSE Good(<<<<kSub, DictGet(payload.val, kSub, StrV(<<>>))>>,
                <<kName, DictGet(payload.val, kName, StrV(<<>>))>>,
                <<kEmail, DictGet(payload.val, kEmail, StrV(<<>>))>>>>)

\* lines 348-352: raises RuntimeError unless the project and the agent are configured
_init_vertex == config.agent

Socket(state, code) == [state |-> state, code |-> code]
Connecting == Socket("connecting", 0)
Accepted == Socket("accepted", 0)
UNAUTHORIZED == 4401        \* websocket.close(code=4401)

\* the values a client can send as the session cookie: what it can send as the state
\* cookie, and the session cookie signed with another key
WsCookieInputs ==
    CookieInputs \cup (IF cookies.session.form = "dotted"
                       THEN {Tampered(cookies.session, "sig")} ELSE {})

\* a client asks for /ws: lines 590-597, up to the closure variables
WsUpgrade ==
    \E cookie \in WsCookieInputs :
        \E user \in {IF config.oidc THEN _get_session_user_from_cookie(cookie) ELSE Good(Anonymous)} :
            /\ pc = "upgrade"
            /\ request' = Request("ws", cookie, <<>>, <<>>, NoIdp)
            /\ response' = NoResponse
            /\ ws_user' = user
            /\ IF config.oidc /\ ~user.ok
               THEN websocket' = Socket("closed", UNAUTHORIZED) /\ pc' = "closed"
               ELSE /\ websocket' = Accepted
                    \* client = _init_vertex() raises out of the handler
                    /\ pc' = IF _init_vertex THEN "recv" ELSE "failed"
            /\ UNCHANGED <<audio_queue, handleVars, sessionVars, tasks, senderVars, stopVars,
                           now, api_key, msg, replies, nmsgs, msgQueries, nchunks, enqueued,
                           forwarded, queried, limits, query, config, wallclock, tokenFrame,
                           cookies>>

\* time passes: a tick, or as long as a state cookie or a session cookie lives
WallTick ==
    \E d \in limits.leaps :
        /\ d = Min(limits.leaps) => (wallclock % (OIDC_STATE_TTL_SEC * TicksPerSec)) < limits.wall
        /\ d > Min(limits.leaps) => wallclock < d
        /\ wallclock + d <= Max(limits.leaps) + limits.wall
        /\ wallclock' = wallclock + d
        /\ request' = NoRequest
        /\ response' = NoResponse
        /\ UNCHANGED <<connVars, wsVars, config, tokenFrame, cookies>>

AuthInit ==
    /\ wallclock = 0
    /\ token = NoToken
    /\ signCall = NoCall
    /\ verified = NotVerified
    /\ cookies = NoCookies
    /\ request = NoRequest
    /\ response = NoResponse

\* OIDC_SESSION_SECRET; OIDC_ENABLED with the issuer and the client set;
\* GCP_PROJECT_ID and AGENT_RESOURCE_NAME set
Configs == [secret : {<<>>, <<"k">>}, oidc : BOOLEAN, agent : BOOLEAN]
Configured == [secret |-> <<"k">>, oidc |-> TRUE, agent |-> TRUE]

(* ---- the agent query proxy (_query_agent, lines 355-465) -------------- *)
\* Values of an upstream event: V extended with mappings, a dict being a sequence of
\* <<key, value>> pairs in the field d.
DictV(d) == [tag |-> "dict", s |-> <<>>, n |-> 0, d |-> d]

sError == <<"e", "r", "r", "o", "r">>
sDenied == <<"d", "e", "n", "i", "e", "d">>
sHello == <<"H", "e", "l", "l", "o">>
DirectFields == <<"message", "error", "detail", "reason">>
Containers == <<"error", "result", "response">>

\* lines 282-285
_is_error_response(response_data) ==
    /\ response_data.tag = "dict"
    /\ \/ DictGet(response_data.d, "status", NullV) = StrV(sError)
       \/ HasKey(response_data.d, "error")

\* the first of the direct fields of d whose value is a non-blank str, stripped; NullV
\* for None
RECURSIVE FirstDetail(_, _)
FirstDetail(d, fields) ==
    IF fields = <<>> THEN NullV
    ELSE LET value == DictGet(d, Head(fields), NullV) IN
         IF value.tag = "str" /\ Strip(value.s) # <<>> THEN StrV(Strip(value.s))
         ELSE FirstDetail(d, Tail(fields))

RECURSIVE ContainerDetail(_, _)
ContainerDetail(d, keys) ==
    IF keys = <<>> THEN NullV
    ELSE LET container == DictGet(d, Head(keys), NullV) IN
         IF container.tag = "dict" /\ FirstDetail(container.d, DirectFields) # NullV
         THEN FirstDetail(container.d, DirectFields)
         ELSE ContainerDetail(d, Tail(keys))

\* lines 288-306
_extract_error_detail(response_data) ==
    IF response_data.tag # "dict" THEN NullV
    ELSE IF FirstDetail(response_data.d, DirectFields) # NullV
    THEN FirstDetail(response_data.d, DirectFields)
    ELSE ContainerDetail(response_data.d, Containers)

\* a part of an event: a mapping with some of the keys text, function_call and
\* function_response, or an object with a text attribute
Part(mapping, text, call, result) ==
    [mapping |-> mapping, text |-> text, function_call |-> call, function_response |-> result]
TextPart(s) == Part(TRUE, StrV(s), Missing, Missing)
ObjectPart(text) == Part(FALSE, text, Missing, Missing)
CallPart(fc) == Part(TRUE, Missing, fc, Missing)
ResultPart(fr) == Part(TRUE, Missing, Missing, fr)
Named(name) == <<<<"name", StrV(name)>>>>
Responding(name, response_data) == <<<<"name", StrV(name)>>, <<"response", response_data>>>>

sSearch == <<"s", "e", "a", "r", "c", "h">>
DeniedResult == ResultPart(DictV(Responding(sSearch,
                    DictV(<<<<"status", StrV(sError)>>, <<"message", StrV(sDenied)>>>>))))
WellFormedParts ==
    {TextPart(sHello), TextPart(<<" ", "a">>), TextPart(<<"b", "\t">>), TextPart(<<>>),
     ObjectPart(StrV(<<"c">>)), ObjectPart(NullV),
     Part(TRUE, StrV(<<"t">>), DictV(Named(sSearch)), Missing),
     CallPart(DictV(Named(sSearch))), CallPart(DictV(<<>>)),
     DeniedResult,
     ResultPart(DictV(Responding(sSearch, DictV(<<<<"status", StrV(<<"o", "k">>)>>>>)))),
     ResultPart(DictV(Named(sSearch))),
     ResultPart(DictV(Responding(sSearch, DictV(<<<<"result",
                    DictV(<<<<"status", StrV(sError)>>, <<"message", StrV(sDenied)>>>>)>>>>)))),
     ResultPart(DictV(Responding(sSearch, DictV(<<<<"result",
                    DictV(<<<<"error", StrV(<<" ", "x">>)>>>>)>>, <<"error", NullV>>>>))))}
MalformedParts ==
    {Part(TRUE, NullV, Missing, Missing), CallPart(NullV), ResultPart(StrV(<<"r">>)),
     ObjectPart(IntV(5)), Part(TRUE, Missing, Missing, Missing)}

\* an event: its content is absent, or has no parts, or has parts
Event(parts) == [content |-> TRUE, parts |-> parts]
NoContent == [content |-> FALSE, parts |-> <<>>]
Events(parts) == {NoContent, Event(<<>>)} \cup {Event(<<p>>) : p \in parts}
Streams(parts) ==
    UNION {[1..n -> Events(parts)] : n \in 0..MaxEvents}

\* a frame _query_agent sends: agent_activity, or the agent_response it returns
Activity(request_id, activity, tool, status, detail, total, completed) ==
    [type |-> "agent_activity", request_id |-> request_id, activity |-> activity,
     tool |-> tool, status |-> status, detail |-> detail,
     progress |-> [total_tool_calls |-> total, completed_tool_calls |-> completed]]
AgentResponse(request_id, text) ==
    [type |-> "agent_response", request_id |-> request_id, text |-> text]

\* the locals of _query_agent
Locals(chunks, total, completed, sent, raised) ==
    [chunks |-> chunks, total_tool_calls |-> total, completed_tool_calls |-> completed,
     sent |-> sent, raised |-> raised]

\* lines 396-446: one part
OnPart(part, request_id, l) ==
    IF part.mapping /\ part.text.tag # "missing"
    THEN [l EXCEPT !.chunks = Append(@, part.text)]
    ELSE IF part.mapping /\ part.function_call.tag # "missing"
    THEN LET fc == part.function_call IN
         IF fc.tag # "dict" THEN [l EXCEPT !.raised = TRUE]      \* fc.get: AttributeError
         ELSE [l EXCEPT
                !.total_tool_calls = @ + 1,
                !.sent = Append(@, Activity(request_id, "tool_call",
                            DictGet(fc.d, "name", StrV(<<"u", "n", "k", "n", "o", "w", "n">>)),
                            NullV, NullV, l.total_tool_calls + 1, l.completed_tool_calls))]
    ELSE IF part.mapping /\ part.function_response.tag # "missing"
    THEN LET fr == part.function_response IN
         IF fr.tag # "dict" THEN [l EXCEPT !.raised = TRUE]
         ELSE LET response_data == DictGet(fr.d, "response", DictV(<<>>))
                  error == _is_error_response(response_data)
              IN  [l EXCEPT
                    !.completed_tool_calls = @ + 1,
                    !.sent = Append(@, Activity(request_id, "tool_result",
                            DictGet(fr.d, "name", StrV(<<"u", "n", "k", "n", "o", "w", "n">>)),
                            IF error THEN StrV(sError)
                            ELSE StrV(<<"s", "u", "c", "c", "e", "s", "s">>),
                            IF error THEN _extract_error_detail(response_data) ELSE NullV,
                            l.total_tool_calls, l.completed_tool_calls + 1))]
    ELSE \* txt = getattr(part, "text", None); if txt
         IF ~part.mapping /\ part.text \notin {Missing, NullV, StrV(<<>>), IntV(0)}
         THEN [l EXCEPT !.chunks = Append(@, part.text)]
         ELSE l

RECURSIVE OnParts(_, _, _)
OnParts(parts, request_id, l) ==
    IF parts = <<>> \/ l.raised THEN l
    ELSE OnParts(Tail(parts), request_id, OnPart(Head(parts), request_id, l))

RECURSIVE Concat(_)
Concat(chunks) == IF chunks = <<>> THEN <<>> ELSE Head(chunks).s \o Concat(Tail(chunks))

\* "".join(chunks).strip(); join raises TypeError on an item that is not a str
JoinStripped_NoStrip(chunks) ==
    IF \E i \in 1..Len(chunks) : chunks[i].tag # "str" THEN Bad
    ELSE Good(Concat(chunks))
JoinStripped(chunks) ==
    IF \E i \in 1..Len(chunks) : chunks[i].tag # "str" THEN Bad
    ELSE Good(Strip(Concat(chunks)))

RequestIds == {"req-1", "req-2"}       \* f"req-{uuid.uuid4().hex[:10]}"
NoLocals == Locals(<<>>, 0, 0, <<>>, FALSE)
Query(stream) ==
    [pc |-> "call", stream |-> stream, pos |-> 1, request_id |-> "", locals |-> NoLocals,
     response |-> NullV]
NoQuery == [Query(<<>>) EXCEPT !.pc = "none"]

\* lines 358-376: the call, up to the first event of the stream
QueryStart ==
    \E request_id \in RequestIds :
        /\ query.pc = "call"
        /\ query' = [query EXCEPT
                !.pc = "stream",
                !.request_id = request_id,
                !.locals.sent = <<Activity(request_id, "thinking", NullV, NullV, NullV, 0, 0)>>]
        /\ UNCHANGED <<connVars_noquery, authVars>>

\* lines 378-450: the stream yields its next event
QueryEvent ==
    /\ query.pc = "stream"
    /\ query.pos <= Len(query.stream)
    /\ LET event == query.stream[query.pos]
           l == IF event.content THEN OnParts(event.parts, query.request_id, query.locals)
                ELSE query.locals
       IN  query' = [query EXCEPT
                !.pc = IF l.raised THEN "raised" ELSE "stream",
                !.pos = @ + 1,
                !.locals = l]
    /\ UNCHANGED <<connVars_noquery, authVars>>

\* lines 452-469: the stream is exhausted
QueryEnd ==
    /\ query.pc = "stream"
    /\ query.pos > Len(query.stream)
    /\ LET l == query.locals
           text == JoinStripped(l.chunks)
       IN  query' = [query EXCEPT
                !.pc = IF text.ok THEN "returned" ELSE "raised",
                !.locals.sent = Append(@, Activity(query.request_id, "done", NullV, NullV, NullV,
                                    l.total_tool_calls, l.completed_tool_calls)),
                !.response = IF text.ok THEN AgentResponse(query.request_id, text.val) ELSE NullV]
    /\ UNCHANGED <<connVars_noquery, authVars>>

(* ---- the connection ---------------------------------------------------- *)
\* the closure state after websocket.accept() (lines 596-608)
ClosureOf(slots) ==
    /\ audio_queue = <<>>
    /\ live_client = FALSE
    /\ live_task = None
    /\ greeting_task = None
    /\ response_task = None
    /\ tts_task = None
    /\ transcript_parts = <<>>
    /\ last_response_index = 0
    /\ last_response_at = 0
    /\ tasks = [i \in 1..slots |-> Free]
    /\ sender_task = "none"
    /\ sender_chunk = Sentinel
    /\ stopKind = "none"
    /\ stopWait = {}
    /\ now = InitClock
    /\ api_key \in BOOLEAN
    /\ msg = Simple("none")
    /\ replies = <<>>
    /\ nmsgs = 0
    /\ nchunks = 0
    /\ enqueued = <<>>
    /\ forwarded = <<>>
    /\ queried = <<>>
    /\ msgQueries = 0

\* a connection of the signed-in user, accepted
ClosureInit == ClosureOf(MaxTasks)

AcceptedInit ==
    /\ pc = "recv"
    /\ websocket = Accepted
    /\ ws_user = Good(<<<<kSub, StrV(<<"u">>)>>, <<kName, StrV(<<>>)>>, <<kEmail, StrV(<<>>)>>>>)
ConnInit == ClosureInit /\ AcceptedInit

Limits(msgs, wide, wall, leaps) ==
    [msgs |-> msgs, chunks |-> MaxChunks, frags |-> MaxFrags, clock |-> MaxClock,
     wide |-> wide, wall |-> wall, leaps |-> leaps]

Init ==
    /\ ConnInit /\ AuthInit /\ config = Configured /\ limits = Limits(MaxMsgs, FALSE, 0, {1})
    /\ query = NoQuery

\* the same connection, fewer frames, every shape of frame
ProtoInit ==
    /\ ConnInit /\ AuthInit /\ config = Configured /\ limits = Limits(ProtoMsgs, TRUE, 0, {1})
    /\ query = NoQuery

\* the signed-value round trip on its own
TokenInit ==
    /\ ConnInit /\ api_key /\ AuthInit /\ config \in {c \in Configs : c.agent}
    /\ limits = Limits(0, FALSE, MaxWall, {1})
    /\ query = NoQuery

\* the login flow on its own
LoginInit ==
    /\ ConnInit /\ api_key /\ AuthInit /\ config \in {c \in Configs : c.agent}
    /\ limits = Limits(0, FALSE, AuthWall, {1, OIDC_STATE_TTL_SEC * TicksPerSec})
    /\ query = NoQuery

\* a client that logs in, or not, and asks for the WebSocket; the clock in whole seconds
UpgradeInit ==
    /\ ClosureInit /\ api_key /\ AuthInit /\ config \in Configs
    /\ pc = "upgrade"
    /\ websocket = Connecting
    /\ ws_user = Bad
    /\ limits = Limits(UpgradeMsgs, FALSE, TicksPerSec,
                       {TicksPerSec, OIDC_STATE_TTL_SEC * TicksPerSec,
                        OIDC_SESSION_TTL_SEC * TicksPerSec})
    /\ query = NoQuery

\* _verify_signed_value on every kind of value, over two seconds of wall clock
ForgeInit ==
    /\ ConnInit /\ api_key /\ AuthInit /\ config \in {c \in Configs : c.agent}
    /\ limits = Limits(0, FALSE, ForgeWall, {1})
    /\ query = NoQuery

\* one agent query on every upstream stream of the bound
QueryInit ==
    /\ ConnInit /\ api_key /\ AuthInit /\ config = Configured /\ limits = Limits(0, FALSE, 0, {1})
    /\ query \in {Query(stream) : stream \in Streams(WellFormedParts \cup MalformedParts)}

ReceiveLoop ==
    \/ BadFrame
    \/ Ping
    \/ Unsupported
    \/ UserText
    \/ UserQueryDone
    \/ UserQueryFail
    \/ LiveStart
    \/ LiveStop
    \/ StopFinish
    \/ AudioChunk
    \/ SpeechPause
    \/ BargeIn
    \/ Disconnect

Background ==
    \/ Cancelled
    \/ LiveRun
    \/ Fragment
    \/ FragmentSent
    \/ LiveEnd
    \/ SenderGet
    \/ SenderSent
    \/ GreetingRun
    \/ GreetingWake
    \/ TtsEnd
    \/ ResponseRun
    \/ ResponseAnswer
    \/ ResponseFail
    \/ ResponseWake
    \/ Tick

Next == ReceiveLoop \/ Background

Spec == Init /\ [][Next]_vars

ProtoSpec == ProtoInit /\ [][Next]_vars

TokenNext == Sign \/ Verify \/ WallTick

TokenSpec == TokenInit /\ [][TokenNext]_vars

ForgeNext == Sign \/ Verify \/ VerifyForged \/ WallTick
ForgeSpec == ForgeInit /\ [][ForgeNext]_vars

LoginNext == AuthLogin \/ AuthCallback \/ WallTick

LoginSpec == LoginInit /\ [][LoginNext]_vars

UpgradeNext == AuthLogin \/ AuthCallback \/ WsUpgrade \/ Ping \/ WallTick

UpgradeSpec == UpgradeInit /\ [][UpgradeNext]_vars

\* a client that starts a session, talks and interrupts, and never stops or leaves.
\* The event loop runs every callback it has scheduled: a task whose cancellation was
\* requested gets its CancelledError, and a task awaiting a finished task is woken.
TalkInit == Init /\ api_key

TalkNext == LiveStart \/ AudioChunk \/ SpeechPause \/ BargeIn \/ Background

TalkSpec ==
    /\ TalkInit /\ [][TalkNext]_vars
    /\ WF_vars(Cancelled) /\ WF_vars(GreetingWake) /\ WF_vars(ResponseWake)

\* a session in which two fragments are transcribed: turns follow one another
TurnInit ==
    /\ ClosureOf(TurnTasks) /\ AcceptedInit /\ api_key /\ AuthInit /\ config = Configured
    /\ limits = [Limits(TurnMsgs, FALSE, 0, {1}) EXCEPT !.frags = TurnFrags]
    /\ query = NoQuery
TurnNext ==
    \/ LiveStart \/ SpeechPause \/ BargeIn
    \/ Cancelled \/ LiveRun \/ Fragment \/ FragmentSent \/ LiveEnd
    \/ GreetingRun \/ GreetingWake \/ TtsEnd
    \/ ResponseRun \/ ResponseAnswer \/ ResponseFail \/ ResponseWake
    \/ Tick
TurnSpec == TurnInit /\ [][TurnNext]_vars

\* a session the client starts and then leaves alone: it sends no speech_pause, no
\* barge_in and no live_stop.  The event loop runs every task that is ready, an agent
\* query and a synthesis come to an end, and time passes; whether the upstream
\* transcribes another fragment is not up to the gateway.
ListenInit ==
    /\ ClosureOf(TurnTasks) /\ AcceptedInit /\ api_key /\ AuthInit /\ config = Configured
    /\ limits = [Limits(ListenMsgs, FALSE, 0, {1}) EXCEPT !.frags = TurnFrags]
    /\ query = NoQuery
ListenNext ==
    \/ LiveStart
    \/ LiveRun \/ Fragment \/ FragmentSent \/ LiveEnd
    \/ GreetingRun \/ GreetingWake \/ TtsEnd
    \/ ResponseRun \/ ResponseAnswer \/ ResponseFail \/ ResponseWake
    \/ Tick
ListenSpec ==
    /\ ListenInit /\ [][ListenNext]_vars
    /\ WF_vars(LiveRun) /\ WF_vars(FragmentSent)
    /\ WF_vars(GreetingRun) /\ WF_vars(GreetingWake) /\ WF_vars(TtsEnd)
    /\ WF_vars(ResponseRun) /\ WF_vars(ResponseAnswer \/ ResponseFail) /\ WF_vars(ResponseWake)
    /\ WF_vars(Tick)

QueryNext == QueryStart \/ QueryEvent \/ QueryEnd

QuerySpec == QueryInit /\ [][QueryNext]_vars

(* ---- claims ------------------------------------------------------------ *)
Running(kind) == {i \in TaskIds : tasks[i].kind = kind /\ ~Done(tasks[i])}
Quiesced == \A i \in TaskIds : Done(tasks[i])
Answered(type, frame) == msg.type = type /\ pc = "recv" /\ replies = <<frame>>

\* C1: in every reachable state of a connection at most one response-trigger task
\* (_trigger_agent_response) is created and not yet finished, whatever the
\* interleaving of fragments, speech_pause, barge_in, live_start and live_stop.
C1_OneResponseTask == Cardinality(Running("response")) <= 1

\* a response-trigger task is in its agent query, a speech_pause has just been
\* answered, and the transcription task is about to evaluate its debounce condition
\* with the quiet interval elapsed: both triggers compete with a running task
C1_Witness ==
    /\ Answered("speech_pause", StatusFrame("speech_pause"))
    /\ response_task # None
    /\ tasks[response_task].kind = "response" /\ tasks[response_task].pc = "query"
    /\ now - last_response_at > DEBOUNCE_SEC
    /\ \E i \in TaskIds : Is(i, "live", "send")

\* C2: once live_stop has been answered with the 'stopped' status, every task the
\* connection created before it has terminated.
C2_StoppedMeansQuiesced == Answered("live_stop", StatusFrame("stopped")) => Quiesced

\* C3: once the handler has returned (after a disconnect or an uncaught exception
\* of the receive loop), no task created by the connection is still running.
C3_ClosedMeansQuiesced == pc = "closed" => Quiesced

\* C4: within one live session the chunks the sender has forwarded are, in order, the
\* first chunks the receive loop enqueued (no reordering, no invention), and once the
\* sender has read the end-of-stream sentinel it forwards nothing more.
IsPrefix(s, t) == Len(s) <= Len(t) /\ SubSeq(t, 1, Len(s)) = s
C4_ForwardedInOrder ==
    /\ [](IsPrefix(forwarded, enqueued))
    /\ [][sender_task = "end" => forwarded' = forwarded]_vars

\* two chunks were enqueued, the sender forwarded both and then read the sentinel
C4_Witness == sender_task = "end" /\ Len(forwarded) = 2 /\ forwarded = enqueued

\* C5: when the transcription task of a session has terminated by cancellation
\* (live_stop, disconnect), every chunk enqueued for the session has been forwarded
\* exactly once.
C5_NoAudioLost ==
    (live_task # None /\ tasks[live_task].pc = "cancelled") => forwarded = enqueued

\* C6: a live_start received while the transcription task is running creates no task
\* and leaves the audio channel, the transcript, last_response_index and
\* last_response_at as they are; a live_start that starts a session does so only when
\* no transcription task is running, with a fresh channel, the transcript, index and
\* timestamp reset, and one new transcription task and one new greeting task; never
\* are two transcription tasks running.
C6_LiveStartIdempotent ==
    /\ [](Cardinality(Running("live")) <= 1)
    /\ [][(msg'.type = "live_start" /\ nmsgs' = nmsgs + 1) =>
            IF live_task # None /\ ~Done(tasks[live_task])
            THEN /\ UNCHANGED <<tasks, live_task, greeting_task, audio_queue, transcript_parts,
                               last_response_index, last_response_at>>
                 /\ replies' = <<StatusFrame("started")>>
            ELSE replies' = <<StatusFrame("started")>> =>
                 /\ audio_queue' = <<>>
                 /\ transcript_parts' = <<>>
                 /\ last_response_index' = 0
                 /\ last_response_at' = 0
                 /\ live_task' # greeting_task'
                 /\ tasks'[live_task'] = NewTask("live")
                 /\ tasks'[greeting_task'] = NewTask("greeting")
                 /\ \A i \in {live_task', greeting_task'} : tasks[i].pc = "free" \/ Done(tasks[i])
                 /\ \A i \in DOMAIN tasks \ {live_task', greeting_task'} :
                        tasks'[i] \in {tasks[i], Free}]_vars

\* a chunk was enqueued for the running session, then live_start came again and was
\* answered 'started' with the chunk still on record: nothing was reset
C6_Witness ==
    /\ Answered("live_start", StatusFrame("started"))
    /\ nmsgs = 3
    /\ enqueued # <<>>
    /\ live_task # None /\ ~Done(tasks[live_task])

\* C7: an audio_chunk frame that puts nothing on the audio channel is answered with
\* an error frame and leaves the connection and the session as they were.
C7_RejectedChunkKeepsState ==
    [][(msg'.type = "audio_chunk" /\ nmsgs' = nmsgs + 1 /\ enqueued' = enqueued) =>
            /\ pc' = "recv"
            /\ Len(replies') = 1 /\ replies'[1].type = "error"
            /\ UNCHANGED <<audio_queue, handleVars, sessionVars, tasks>>]_vars

\* C8 as stated: whenever the agent query of a user_text frame ends, the frame is
\* answered with exactly one agent_response.
C8_QueryAlwaysAnswered ==
    [][(pc = "query" /\ pc' # "query") => replies' = <<Frame("agent_response", "text")>>]_vars

\* C8, amended: a user_text frame whose text is not a string is answered 'Invalid text
\* payload', one whose text is missing, empty or whitespace only is answered 'Empty
\* message', both without an agent query; any other runs exactly one agent query and,
\* if the query returns, is answered with exactly one agent_response; if the query
\* raises, the frame is answered with one error frame and the session is torn down.
C8_UserTextAnswered ==
    /\ [][(msg'.type = "user_text" /\ nmsgs' = nmsgs + 1) =>
            LET text == Get(msg'.text, StrV(<<>>)) IN
            IF text.tag # "str"
            THEN pc' = "recv" /\ msgQueries' = 0
                    /\ replies' = <<ErrorFrame("Invalid text payload")>>
            ELSE IF \A i \in 1..Len(text.s) : text.s[i] \in Whitespace
            THEN pc' = "recv" /\ msgQueries' = 0 /\ replies' = <<ErrorFrame("Empty message")>>
            ELSE pc' = "query" /\ msgQueries' = 1 /\ replies' = <<>>]_vars
    /\ [][(pc = "query" /\ pc' # "query") =>
            /\ msgQueries' = 1
            /\ \/ pc' = "recv" /\ replies' = <<Frame("agent_response", "text")>>
               \/ pc' \in {"stopping", "closed"} /\ replies' = <<ErrorFrame("exception")>>]_vars
    /\ [](pc = "query" => msgQueries = 1 /\ replies = <<>>)

\* a whitespace-only text has been answered 'Empty message'
C8_Witness ==
    /\ Answered("user_text", ErrorFrame("Empty message"))
    /\ msg.text.tag = "str" /\ msg.text.s # <<>>
    /\ msgQueries = 0

Keys(d) == {d[i][1] : i \in 1..Len(d)}
RoundTrip == verified.done /\ verified.how = "none"

\* C9 as stated: with a configured secret, a value signed at time now with ttl is
\* invalid whenever it is verified after now + ttl.
C9_InvalidAfterTtl ==
    (RoundTrip /\ verified.at > signCall.at + signCall.ttl * TicksPerSec)
        => ~verified.result.ok

\* C9, amended: with a configured secret, verify(sign(payload, ttl)) returns the
\* payload's fields with exp set to the whole second of signing plus ttl (replacing an
\* exp the payload carried) exactly while the whole second of the clock is not past
\* exp: always before now + ttl, never from one second after now + ttl on, and in the
\* second in between only until the clock reaches the next whole second.
C9_RoundTrip ==
    RoundTrip =>
        LET exp == signCall.at \div TicksPerSec + signCall.ttl
            result == verified.result
        IN  /\ result.ok <=> verified.at \div TicksPerSec <= exp
            /\ verified.at < signCall.at + signCall.ttl * TicksPerSec => result.ok
            /\ verified.at >= signCall.at + (signCall.ttl + 1) * TicksPerSec => ~result.ok
            /\ result.ok =>
                /\ Keys(result.val) = Keys(signCall.payload) \cup {kExp}
                /\ DictGet(result.val, kExp, NullV) = IntV(exp)
                /\ \A k \in Keys(signCall.payload) \ {kExp} :
                        DictGet(result.val, k, NullV) = DictGet(signCall.payload, k, Missing)

\* a signed user payload still verifies although now + ttl has passed
C9_Witness ==
    /\ RoundTrip
    /\ signCall.payload = UserPayload
    /\ verified.at > signCall.at + signCall.ttl * TicksPerSec
    /\ verified.result.ok

\* C10: whenever the callback mints a session cookie, the state cookie it was sent is
\* a value signed with the configured secret and not expired, the state it carries
\* equals the state query parameter, a code was sent, and the identity provider
\* returned an id token whose signature, issuer, audience and expiry validate and
\* whose nonce equals the nonce of the state cookie; and a callback whose state differs
\* from the state of a valid state cookie is answered with an error and mints nothing.
C10_SessionOnlyAfterChecks ==
    request.route = "callback" =>
        LET cookie == request.cookie
            genuine == /\ config.secret # <<>>
                       /\ cookie.form = "dotted"
                       /\ cookie.sig = Mac(config.secret, cookie.body)
                       /\ DictGet(Body(cookie), kExp, IntV(0)).n >= Time
            id_token == request.idp
        IN  /\ response.session # NoToken =>
                /\ config.oidc
                /\ genuine
                /\ DictGet(Body(cookie), kState, NullV) = StrV(request.state)
                /\ request.code # <<>>
                /\ id_token.kind = "token"
                /\ id_token.sig /\ id_token.iss /\ id_token.aud /\ id_token.fresh
                /\ HasKey(Body(cookie), kNonce)
                /\ DictGet(id_token.claims, kNonce, NullV) = DictGet(Body(cookie), kNonce, Missing)
                /\ cookies = [state |-> NoToken, session |-> response.session]
            /\ (genuine /\ DictGet(Body(cookie), kState, NullV) # StrV(request.state)) =>
                /\ response.status = "error"
                /\ response.session = NoToken

\* a callback has minted a session cookie
C10_Witness ==
    /\ request.route = "callback"
    /\ response.status = "redirect"
    /\ response.session.form = "dotted"
    /\ cookies.session = response.session

\* a value signed with the configured secret and not expired
Genuine(value) ==
    /\ config.secret # <<>>
    /\ value.form = "dotted"
    /\ value.sig = Mac(config.secret, value.body)
    /\ DictGet(Body(value), kExp, IntV(0)).n >= Time
\* a session token: a genuine value that carries what the callback mints
SessionToken(value) == Genuine(value) /\ Keys(Body(value)) = {kSub, kName, kEmail, kExp}
Upgraded == pc = "upgrade" /\ pc' # "upgrade"

\* C11: an upgrade is accepted only if authentication is disabled or the cookie sent
\* is a valid, unexpired session token; any other upgrade is closed with code 4401
\* without being accepted. No frame of a client whose upgrade was not accepted is
\* dispatched, and with authentication disabled every upgrade is accepted as anonymous.
C11_AcceptedOnlyWithSession ==
    /\ [][Upgraded =>
            IF ~config.oidc
            THEN websocket' = Accepted /\ ws_user' = Good(Anonymous)
            ELSE IF SessionToken(request'.cookie)
            THEN websocket' = Accepted
            ELSE websocket' = Socket("closed", UNAUTHORIZED) /\ pc' = "closed"]_vars
    /\ [](websocket.state # "accepted" => nmsgs = 0 /\ pc \in {"upgrade", "closed"})
    /\ [][websocket.state = "closed" => UNCHANGED <<websocket, pc, nmsgs>>]_vars

\* the parts of a stream in upstream order
RECURSIVE Flat(_)
Flat(stream) ==
    IF stream = <<>> THEN <<>>
    ELSE (IF Head(stream).content THEN Head(stream).parts ELSE <<>>) \o Flat(Tail(stream))
\* a text part: a mapping with a text, whatever else it has, or an object with a
\* non-empty text; a tool part: a mapping without text that announces a call or,
\* failing that, carries a result
IsText(p) == p.text.tag = "str" /\ (p.mapping \/ p.text.s # <<>>)
IsCall(p) == p.mapping /\ p.text.tag = "missing" /\ p.function_call.tag = "dict"
IsResult(p) ==
    p.mapping /\ p.text.tag = "missing" /\ p.function_call.tag = "missing"
        /\ p.function_response.tag = "dict"
IsTool(p) == IsCall(p) \/ IsResult(p)
RECURSIVE TextOf(_)
TextOf(parts) ==
    IF parts = <<>> THEN <<>>
    ELSE (IF IsText(Head(parts)) THEN Head(parts).text.s ELSE <<>>) \o TextOf(Tail(parts))
Count(parts, n, Test(_)) == Len(SelectSeq(SubSeq(parts, 1, n), Test))
ToolName(p) ==
    DictGet(IF IsCall(p) THEN p.function_call.d ELSE p.function_response.d, "name",
            StrV(<<"u", "n", "k", "n", "o", "w", "n">>))
WellFormed(stream) == \A i \in 1..Len(Flat(stream)) : Flat(stream)[i] \in WellFormedParts
Example == <<Event(<<TextPart(sHello)>>), Event(<<CallPart(DictV(Named(sSearch)))>>),
             Event(<<DeniedResult>>)>>

\* the frames of a returned query but for the answer text: thinking, one activity per
\* tool part in upstream order with the running counts, done with the final counts,
\* one request_id throughout
ActivitiesInOrder ==
    LET parts == Flat(query.stream)
        tools == SelectSeq(parts, IsTool)
        sent == query.locals.sent
        progress(i) == [total_tool_calls |-> Count(tools, i, IsCall),
                        completed_tool_calls |-> Count(tools, i, IsResult)]
    IN  /\ Len(sent) = Len(tools) + 2
        /\ \A i \in 1..Len(sent) : sent[i].request_id = query.request_id
        /\ query.response.request_id = query.request_id
        /\ query.request_id \in RequestIds
        /\ sent[1].activity = "thinking" /\ sent[1].progress = progress(0)
        /\ sent[Len(sent)].activity = "done" /\ sent[Len(sent)].progress = progress(Len(tools))
        /\ \A i \in 1..Len(tools) :
                /\ sent[i + 1].activity = IF IsCall(tools[i]) THEN "tool_call" ELSE "tool_result"
                /\ sent[i + 1].tool = ToolName(tools[i])
                /\ sent[i + 1].progress = progress(i)
        /\ query.stream = Example =>
                /\ sent[2].tool = StrV(sSearch)
                /\ sent[3].status = StrV(sError) /\ sent[3].detail = StrV(sDenied)
                /\ query.response.text = sHello

CancelRequested(ts, i) ==
    \/ ts[i].cancel
    \/ ts[i].child # None /\ ts[ts[i].child].cancel
Ended(i) == Done(tasks[i]) \/ tasks[i].pc = "free"

\* C13: barge_in requests cancellation of the greeting task, the response-trigger task
\* and the synthesis task that are not done, changes nothing else (transcription task,
\* audio channel, transcript, last_response_index, the handles, the live client) and is
\* answered with its status; an audio_chunk that follows in a listening session is
\* enqueued; and every task whose cancellation was requested eventually terminates.
C13_BargeInCancelsSpeech ==
    /\ [][(msg'.type = "barge_in" /\ nmsgs' = nmsgs + 1) =>
            /\ \A h \in {greeting_task, response_task, tts_task} \ {None} :
                    ~Done(tasks[h]) => CancelRequested(tasks', h)
            /\ \A i \in DOMAIN tasks :
                    /\ tasks'[i].pc = tasks[i].pc
                    /\ tasks'[i].kind = "live" => tasks'[i] = tasks[i]
            /\ UNCHANGED <<audio_queue, handleVars, sessionVars, senderVars, enqueued>>
            /\ pc' = "recv"
            /\ replies' = <<StatusFrame("barge_in")>>]_vars
    /\ [][(msg.type = "barge_in" /\ msg'.type = "audio_chunk" /\ nmsgs' = nmsgs + 1
                /\ live_task # None /\ ~Done(tasks[live_task])) =>
            /\ audio_queue' = Append(audio_queue, enqueued'[Len(enqueued')])
            /\ Len(enqueued') = Len(enqueued) + 1
            /\ replies' = <<>>]_vars
    /\ <>[](\A i \in 1..MaxTasks : CancelRequested(tasks, i) => Ended(i))

\* barge_in has been answered while a response-trigger task awaits its synthesis task:
\* the cancellation went to the synthesis task, the transcription task still receives
C13_Witness ==
    /\ Answered("barge_in", StatusFrame("barge_in"))
    /\ response_task # None /\ tasks[response_task].pc = "tts"
    /\ tasks[tasks[response_task].child].cancel
    /\ live_task # None /\ Is(live_task, "live", "recv")

\* C14: outside a teardown in progress, the response-trigger handle never names a task
\* that has ended (returned, failed, or cancelled at any point of its life), so that the
\* guards of speech_pause and of the debounce can pass again.
C14_EndedClearsHandle ==
    (pc # "stopping" /\ response_task # None) => ~Done(tasks[response_task])

\* C15: the session is never half-alive: while the receive loop takes frames and the
\* live session counts as active (live_client set: audio_chunk accepted, speech_pause
\* honoured), its transcription task has not died of an exception, and no task of the
\* connection that failed is left without the session being torn down.
C15_NeverHalfAlive ==
    (pc = "recv" /\ live_client) =>
        /\ live_task # None /\ tasks[live_task].pc # "err"
        /\ response_task # None => tasks[response_task].pc # "err"

\* a response-trigger task is suspended in its agent query, whose stream yields nothing
Stalled == \E i \in TaskIds : Is(i, "response", "query")
\* the receive loop handled the frame m in this step
Handled(m) == pc = "recv" /\ nmsgs' = nmsgs + 1 /\ msg' = m
GoodUserText == Payload("user_text", GoodText, Missing, Missing)
GoodAudioChunk == Payload("audio_chunk", Missing, GoodAudio, GoodRate)

\* C16: while a response-trigger task is stalled in its agent query, the receive loop
\* of the connection is not blocked: whenever it is at its receive it can take a ping,
\* a user_text and an audio_chunk, and taking them it answers the ping with pong,
\* starts the query of the user_text and enqueues the chunk, the stalled task staying
\* as it is.
C16_StalledTaskDoesNotBlock ==
    /\ [](Stalled /\ pc = "recv" /\ nmsgs < limits.msgs =>
            /\ ENABLED Ping
            /\ ENABLED (UserText /\ msg' = GoodUserText)
            /\ nchunks < limits.chunks => ENABLED (AudioChunk /\ msg' = GoodAudioChunk))
    /\ [][Stalled /\ Handled(Simple("ping")) =>
            replies' = <<Frame("pong", "")>> /\ pc' = "recv" /\ Stalled']_vars
    /\ [][Stalled /\ Handled(GoodUserText) =>
            pc' = "query" /\ msgQueries' = 1 /\ Stalled']_vars
    /\ [][Stalled /\ Handled(GoodAudioChunk) =>
            /\ Len(audio_queue') = Len(audio_queue) + 1
            /\ audio_queue'[Len(audio_queue')].data = decode_audio_base64(GoodAudio.s)
            /\ pc' = "recv" /\ Stalled']_vars
\* with a response-trigger task stalled in its query, an audio_chunk has been enqueued
\* and the ping received last has been answered with pong
C16_Witness ==
    /\ Stalled /\ pc = "recv" /\ nmsgs = 3 /\ msg = Simple("ping")
    /\ replies = <<Frame("pong", "")>> /\ Len(enqueued) = 1

\* agent queries in flight on the connection: the one the receive loop awaits for a
\* user_text, and those awaited by response-trigger tasks
LoopQueries == IF pc = "query" THEN 1 ELSE 0
ResponseTasks == {i \in TaskIds : tasks[i].kind = "response" /\ ~Done(tasks[i])}
TaskQueries == Cardinality({i \in ResponseTasks : tasks[i].pc = "query"})
InFlight == LoopQueries + TaskQueries

\* C17 as stated: a connection has at most one agent query in flight at any time,
\* counting the user_text query of the receive loop and the query of a
\* response-trigger task.
C17_OneQueryInFlight == InFlight <= 1
\* C17 as the code has it: at most one response-trigger task exists at a time, so at
\* most one query is in flight in such a task, and at most one in the receive loop:
\* two in all, one of each kind.
C17_OneQueryOfEachKind ==
    /\ Cardinality(ResponseTasks) <= 1
    /\ LoopQueries <= 1 /\ TaskQueries <= 1 /\ InFlight <= 2
\* the receive loop awaits the query of a user_text while a response-trigger task
\* awaits its own
C17_Witness == pc = "query" /\ msg = GoodUserText /\ TaskQueries = 1 /\ InFlight = 2

\* the fields of a frame the handlers validate
InvalidText(m) ==
    \E text \in {Get(m.text, StrV(<<>>))} :
        text.tag # "str" \/ \A i \in 1..Len(text.s) : text.s[i] \in Whitespace
InvalidAudio(m) == m.audio.tag # "str" \/ m.audio.s = <<>> \/ ~B64Valid(m.audio.s)
InvalidRate(m) ==
    \E rate \in {PyInt(Get(m.sample_rate, IntV(DEFAULT_SAMPLE_RATE)))} : ~rate.ok \/ rate.n <= 0
\* a frame that is not JSON, not an object, of unknown or missing type, or with an
\* invalid field
ProtocolError(m) ==
    \/ m.json # "object"
    \/ m.type \notin KnownTypes
    \/ m.type = "user_text" /\ InvalidText(m)
    \/ m.type = "audio_chunk" /\ (InvalidAudio(m) \/ InvalidRate(m))

\* C18: a protocol error produces exactly one error frame, leaves the connection open
\* with the receive loop going on to the next frame, and changes no session state:
\* task handles, tasks, audio channel, transcript.
C18_ProtocolErrorKeepsSession ==
    [][(pc = "recv" /\ nmsgs' = nmsgs + 1 /\ ProtocolError(msg')) =>
            /\ Len(replies') = 1 /\ replies'[1] = ErrorFrame(replies'[1].v)
            /\ pc' = "recv"
            /\ UNCHANGED <<handleVars, tasks, audio_queue, enqueued, sessionVars>>]_vars

\* the value the last call of _verify_signed_value was given
Presented ==
    IF verified.how \in ForgedHows THEN Forged(verified.how)
    ELSE Tampered(IF signCall.ok THEN token ELSE NoToken, verified.how)
\* the MAC the value carries is the one computed over its body with the configured secret
MacRight(value) ==
    /\ value.form = "dotted" /\ config.secret # <<>>
    /\ value.sig # NotBase64
    /\ [key |-> value.sig.key, body |-> value.sig.body] = Mac(config.secret, value.body)

\* C19: verify accepts a value only if its MAC is the one computed over its body with
\* the configured secret and its expiry has not passed at the time of the call, and
\* then returns the payload; for every other input (absent, without separator, body
\* or MAC altered, content that cannot be decoded, no secret configured) it returns
\* invalid and does not raise; sign raises exactly when no secret is configured.
C19_VerifyIsTotal ==
    /\ verified.done =>
        /\ verified.result.ok =>
              /\ MacRight(Presented)
              /\ verified.result = Good(Body(Presented))
              /\ DictGet(Body(Presented), kExp, IntV(0)).n >= verified.at \div TicksPerSec
        /\ ~verified.result.ok => verified.result = Bad
        /\ verified.how \in {"absent", "plain", "body", "sig", "badsig"} \cup ForgedHows
              => verified.result = Bad
        /\ config.secret = <<>> => verified.result = Bad
    /\ \A payload \in PayloadInputs, ttl_sec \in 0..MaxTtl :
          _sign_value(payload, ttl_sec).ok <=> config.secret # <<>>
    /\ token # NoToken => config.secret # <<>>
\* with a secret configured, a value with the right MAC whose signed body is not JSON
\* has been presented and found invalid
C19_Witness ==
    /\ verified.done /\ verified.how = "notjson" /\ config.secret # <<>>
    /\ MacRight(Presented) /\ verified.result = Bad

\* a configuration value the process needs is missing
AgentMissing == ~config.agent
SecretMissing == config.oidc /\ config.secret = <<>>

\* C20: a missing configuration value is found at startup and never inside a request
\* or a connection: while the upstream agent identity is missing no WebSocket
\* connection is accepted and no handler fails on it, and while the signing secret is
\* missing with authentication enabled no request or upgrade is served.
C20_MissingConfigFoundAtStartup ==
    /\ AgentMissing => websocket.state # "accepted" /\ pc # "failed"
    /\ SecretMissing => websocket = Connecting /\ response = NoResponse

\* C21: on every upstream stream, malformed parts included, the agent query runs to
\* its end: no exception leaves _query_agent, and once the stream is exhausted the
\* 'done' activity and the answer have been produced.
C21_MalformedPartNeverFatal ==
    /\ query.pc # "raised"
    /\ (query.pc = "stream" /\ query.pos > Len(query.stream)) => ENABLED QueryEnd
    /\ query.pc = "returned" =>
          /\ query.locals.sent[Len(query.locals.sent)].activity = "done"
          /\ query.response.type = "agent_response"

\* an error marker in a mapping: status 'error', or an error key
MarkedAt(d) == DictGet(d, "status", NullV) = StrV(sError) \/ HasKey(d, "error")
\* the payload carries an error marker at the top level or inside a nested error,
\* result or response container
Marked(response_data) ==
    /\ response_data.tag = "dict"
    /\ \/ MarkedAt(response_data.d)
       \/ \E i \in 1..Len(Containers) :
            /\ DictGet(response_data.d, Containers[i], NullV).tag = "dict"
            /\ MarkedAt(DictGet(response_data.d, Containers[i], NullV).d)
\* the first event of the stream is one function_response part that is a mapping, and
\* the query has handled it: its tool_result activity is the second frame sent
FirstResult ==
    /\ query.pc = "stream" /\ query.pos = 2
    /\ query.stream[1].content /\ Len(query.stream[1].parts) = 1
    /\ query.stream[1].parts[1].mapping
    /\ query.stream[1].parts[1].text = Missing
    /\ query.stream[1].parts[1].function_call = Missing
    /\ query.stream[1].parts[1].function_response.tag = "dict"
ResultData == DictGet(query.stream[1].parts[1].function_response.d, "response", DictV(<<>>))

\* C22: the status of a tool_result activity is 'error' exactly when the result
\* payload carries an error marker at the top level or inside its error, result or
\* response container, and 'success' otherwise; the detail of an error result is the
\* first non-blank string under message, error, detail, reason at the top level, then
\* inside those containers.
C22_StatusFollowsMarker ==
    FirstResult =>
        /\ query.locals.sent[2].activity = "tool_result"
        /\ query.locals.sent[2].status =
              IF Marked(ResultData) THEN StrV(sError) ELSE StrV(<<"s", "u", "c", "c", "e", "s", "s">>)
        /\ Marked(ResultData) =>
              query.locals.sent[2].detail =
                  IF FirstDetail(ResultData.d, DirectFields) # NullV
                  THEN FirstDetail(ResultData.d, DirectFields)
                  ELSE ContainerDetail(ResultData.d, Containers)

\* no live session: no handle is set and there is no transcription client
Idle == \A i \in 1..4 : Handles[i] = None /\ ~live_client
\* barge_in finds nothing to cancel: greeting, response-trigger and synthesis task are
\* absent or finished
NothingToCancel ==
    \A i \in 1..3 : BargeInTargets[i] = None \/ Done(tasks[BargeInTargets[i]])

\* C23: cancellation is idempotent.  A live_stop received with no live session (so
\* also a live_stop right after a live_stop) and a barge_in received when the
\* greeting, response-trigger and synthesis tasks are absent or finished complete
\* without error, are answered with their status frame, and leave handles, audio
\* channel, transcript and every task as they were; every answered live_stop leaves
\* the session idle, so that a live_stop right after it finds no session.
C23_CancellationIdempotent ==
    /\ [][(Idle /\ Handled(Simple("live_stop"))) =>
            /\ replies' = <<StatusFrame("stopped")>> /\ pc' = "recv"
            /\ Idle'
            /\ UNCHANGED <<handleVars, audio_queue, sessionVars>>
            /\ \A i \in DOMAIN tasks : tasks'[i] \in {tasks[i], Free}]_vars
    /\ [][(((pc = "stopping" /\ stopKind = "live_stop") \/ Handled(Simple("live_stop")))
                /\ pc' = "recv") =>
            replies'[Len(replies')] = StatusFrame("stopped") /\ Idle']_vars
    /\ [][(NothingToCancel /\ Handled(Simple("barge_in"))) =>
            /\ replies' = <<StatusFrame("barge_in")>> /\ pc' = "recv"
            /\ UNCHANGED <<handleVars, audio_queue, sessionVars, tasks>>]_vars
\* a barge_in was answered in a listening session whose greeting had finished before:
\* the greeting task ended normally and its handle is still set
C23_Witness ==
    /\ Answered("barge_in", StatusFrame("barge_in"))
    /\ LiveRunning /\ live_client
    /\ greeting_task # None /\ tasks[greeting_task].pc = "ok"

\* the transcript from last_response_index onward is empty or only whitespace
NothingUnconsumed ==
    \A k \in (last_response_index + 1)..Len(transcript_parts) :
        \A c \in 1..Len(transcript_parts[k]) : transcript_parts[k][c] \in Whitespace
\* the response-trigger task i runs its first step
FirstStep(i) ==
    /\ tasks[i].kind = "response" /\ tasks[i].pc = "init" /\ ~tasks[i].cancel
    /\ tasks'[i].pc # "init"

\* C24: a response-trigger task that finds no unconsumed transcript text exits
\* without effect: it ends at once, issues no agent query, sends nothing, and leaves
\* last_response_index, last_response_at and the transcript as they were.
C24_EmptyTurnHasNoEffect ==
    [][\A i \in DOMAIN tasks :
          (NothingUnconsumed /\ FirstStep(i)) =>
              /\ tasks'[i] \in {Free, [tasks[i] EXCEPT !.pc = "ok"]}
              /\ InFlight' = InFlight
              /\ UNCHANGED <<last_response_index, last_response_at, transcript_parts, replies,
                             audio_queue, live_task, greeting_task, tts_task, live_client>>
              /\ response_task' = None]_vars
\* a response-trigger task has just ended on a transcript whose only fragment is
\* whitespace: the fragment is still unconsumed and no turn is recorded
C24_Witness ==
    /\ transcript_parts = <<<<" ">>>> /\ last_response_index = 0 /\ last_response_at = 0
    /\ response_task = None /\ Running("response") = {}
    /\ Answered("speech_pause", StatusFrame("speech_pause"))

\* the transcription task has sent the live_user_text of a fragment and evaluates its
\* trigger condition in this step
FragmentArrived ==
    \E i \in DOMAIN tasks :
        /\ tasks[i].kind = "live" /\ tasks[i].pc = "send" /\ ~tasks[i].cancel
        /\ tasks'[i].pc = "recv"
\* a response-trigger task is created in this step
TriggerStarted ==
    \E i \in DOMAIN tasks : tasks[i] # tasks'[i] /\ tasks'[i] = NewTask("response")
\* a response-trigger task ends its turn in this step, its query answered and its
\* synthesis, if it had one, finished normally
TurnCompleted ==
    \E i \in DOMAIN tasks :
        /\ tasks[i].kind = "response" /\ ~tasks[i].cancel
        /\ \/ tasks[i].pc = "query"
           \/ tasks[i].pc = "tts" /\ tasks[tasks[i].child].pc = "ok"
        /\ tasks'[i] \in {Free, [tasks[i] EXCEPT !.pc = "ok"]}

\* C25: an automatic response-trigger task starts exactly when a fragment arrives, no
\* response-trigger task is active and more than DEBOUNCE_SEC have passed since
\* last_response_at; last_response_at is set only by a completed turn (and reset by
\* the start of a session), so a cancelled, failed or empty turn leaves it alone.
C25_DebouncedTrigger ==
    /\ [][FragmentArrived =>
            (TriggerStarted <=>
                (Running("response") = {} /\ now - last_response_at > DEBOUNCE_SEC))]_vars
    /\ [][last_response_at' # last_response_at =>
            \/ TurnCompleted /\ last_response_at' = now
            \/ Handled(Simple("live_start")) /\ last_response_at' = 0]_vars

\* C26: speech_pause starts a response-trigger task at once if a live session exists
\* and no response-trigger task is active, starts nothing otherwise, and is answered
\* with the live_status 'speech_pause' in every case.
C26_SpeechPauseTriggers ==
    [][Handled(Simple("speech_pause")) =>
            /\ replies' = <<StatusFrame("speech_pause")>> /\ pc' = "recv"
            /\ TriggerStarted <=> (live_client /\ Running("response") = {})]_vars

\* a live_start that starts a session in this step
SessionStart ==
    Handled(Simple("live_start")) /\ ~LiveRunning /\ replies' = <<StatusFrame("started")>>

\* C27: within a live session the transcript is append-only, last_response_index
\* never decreases and stays between 0 and the length of the transcript, and the
\* slices taken by the response-trigger tasks of the session are disjoint: no
\* fragment is handed to the agent in two queries.
C27_IndexMovesForward ==
    /\ [](0 <= last_response_index /\ last_response_index <= Len(transcript_parts))
    /\ [][~SessionStart =>
            /\ IsPrefix(transcript_parts, transcript_parts')
            /\ last_response_index' >= last_response_index]_vars
    /\ [](\A a \in 1..Len(queried) :
            /\ 1 <= queried[a][1] /\ queried[a][1] <= queried[a][2]
            /\ queried[a][2] <= Len(transcript_parts)
            /\ \A b \in 1..(a - 1) : queried[b][2] < queried[a][1])
\* two response-trigger tasks of one session each sent a fragment to the agent: the
\* first fragment went into the first query, the second into the second
C27_Witness == queried = <<<<1, 1>>, <<2, 2>>>> /\ last_response_index = 2

\* C28: at most one synthesis task runs at any time, and while one runs the synthesis
\* handle names it; the handle is cleared by the task that awaits the synthesis only
\* if it still names that synthesis task.
C28_OneSynthesisTask ==
    /\ [](Cardinality(Running("tts")) <= 1)
    /\ [](\A i \in Running("tts") : tts_task = i)
    /\ [][\A i \in DOMAIN tasks :
            (tasks[i].pc = "tts" /\ tasks'[i].pc # "tts") =>
                tts_task' = IF tts_task = tasks[i].child THEN None ELSE tts_task]_vars

\* the greeting tasks created in this step
NewGreetings ==
    {i \in DOMAIN tasks :
        /\ tasks'[i].kind = "greeting" /\ tasks'[i].pc = "init"
        /\ ~(tasks[i].kind = "greeting" /\ tasks[i].pc = "init")}
\* the statuses among the frames a task has sent
Statuses(frames) == {frames[k].v : k \in {n \in 1..Len(frames) : frames[n].type = "live_status"}}
\* greeting task i, awaiting its synthesis, ends in this step and stays in the table
GreetingEnds(i) ==
    /\ tasks[i].kind = "greeting" /\ tasks[i].pc = "tts"
    /\ tasks'[i].kind = "greeting" /\ tasks'[i].pc # "tts"

\* C29: every started session creates one greeting task, and no other step creates
\* one; whatever a greeting task sends begins with the greeting as live_text; when its
\* synthesis ended without an audio frame it has sent the status 'greeting_no_audio',
\* when its synthesis raised it has sent 'greeting_error', when it was cancelled it
\* has sent no status; and no step of a greeting task or of its synthesis changes the
\* receive loop, the socket or the live session.
C29_GreetingStatuses ==
    /\ [][Cardinality(NewGreetings) = IF SessionStart THEN 1 ELSE 0]_vars
    /\ [](\A i \in DOMAIN tasks :
            /\ tasks[i].sent # <<>> => tasks[i].kind = "greeting" /\ tasks[i].sent[1] = GreetingText
            /\ tasks[i].pc \in {"init", "tts"} => Statuses(tasks[i].sent) = {}
            /\ tasks[i].pc = "cancelled" => Statuses(tasks[i].sent) = {})
    /\ [][\A i \in DOMAIN tasks : GreetingEnds(i) =>
            LET synthesis == tasks[tasks[i].child]
                cancelled == tasks[i].cancel \/ synthesis.pc = "cancelled"
            IN
            /\ Statuses(tasks'[i].sent) =
                    IF cancelled THEN {}
                    ELSE IF synthesis.pc = "err" THEN {"greeting_error"}
                    ELSE IF ~synthesis.has_audio THEN {"greeting_no_audio"}
                    ELSE {}
            /\ tasks'[i].pc = IF cancelled THEN "cancelled" ELSE "ok"]_vars
    /\ [][(\E i \in DOMAIN tasks :
                /\ tasks[i].kind = "greeting" \/ (tasks[i].kind = "tts" /\ tts_task = i)
                /\ ~Done(tasks[i]) /\ tasks'[i].pc # tasks[i].pc)
            => /\ pc' = pc /\ websocket' = websocket
               /\ live_client' = live_client /\ live_task' = live_task
               /\ \A j \in DOMAIN tasks : tasks[j].kind = "live" => tasks'[j] = tasks[j]]_vars
\* the synthesis of the greeting raised: the greeting text went out twice, then the
\* status 'greeting_error', and the session is still listening
C29_Witness ==
    /\ pc = "recv" /\ live_client /\ live_task # None /\ tasks[live_task].pc = "recv"
    /\ greeting_task # None
    /\ tasks[greeting_task].sent = <<GreetingText, GreetingText, StatusFrame("greeting_error")>>
    /\ tasks[greeting_task].pc = "ok"

\* the transcription task of a started session is waiting for the next fragment
Listening == live_client /\ LiveRunning /\ tasks[live_task].pc = "recv"

\* C30: in a listening session, whenever no response-trigger task is active and the
\* quiet interval has passed while the transcript holds a fragment no query has taken,
\* that fragment is eventually taken by a response-trigger query (or the session
\* stops listening), with no further fragment and no speech_pause required.
C30_TurnDetectionLive ==
    (/\ Listening /\ Running("response") = {}
     /\ now - last_response_at > DEBOUNCE_SEC
     /\ ~NothingUnconsumed)
        ~> (NothingUnconsumed \/ ~Listening)
====
